---- MODULE Spec2Model ----
(***************************************************************************)
(* Model of the classification-and-comparison engine of                    *)
(* src/custom-sort/custom-sort-types.ts: determineSortingGroup, the sorter *)
(* registry, getComparator, the folder date / bookmark resolvers and the   *)
(* two sort-pass entry points folderSortCore and sortFolderItems.          *)
(*                                                                         *)
(* Conventions                                                             *)
(*   - a JS string is a sequence of one-character strings;                 *)
(*   - an optional value is Undefined (<<>>) or Some(v) (<<v>>), the JS    *)
(*     null is Null;                                                       *)
(*   - JS arrays keep their 0-based indices: At(arr, i) is arr[i].         *)
(***************************************************************************)
EXTENDS Integers, Sequences, FiniteSets, TLC

VARIABLES
    curSpec,       \* the CustomSortSpec in use (its groupsShadow is rewritten by every pass)
    curCtx,        \* the ProcessingContext: the lookup collaborators
    curSortOrder,  \* the order name currently selected in the host UI
    op,            \* the operation that produced the current state ("init" before any)
    args,          \* the arguments of that operation
    ret            \* what the operation returned

vars == <<curSpec, curCtx, curSortOrder, op, args, ret>>

-----------------------------------------------------------------------------
(* Optional values, null, arrays *)

Undefined == <<>>
Some(v) == <<v>>
Null == <<"null", "null">>
Defined(o) == o # Undefined
Val(o) == o[1]
\* JS truthiness of an optional string / optional number
TruthyStr(o) == o # Undefined /\ o # Null /\ Val(o) # <<>>
TruthyNum(o) == o # Undefined /\ o # Null /\ Val(o) # 0
At(arr, i) == arr[i + 1]
Sign(n) == IF n < 0 THEN -1 ELSE IF n > 0 THEN 1 ELSE 0
SeqToSet(s) == {s[i] : i \in 1..Len(s)}

-----------------------------------------------------------------------------
(* Strings and the two collators *)

MACRO_TOKEN == "{:%parent-folder-name%:}"
Chars == {".", "/", "1", "2", "A", "a", "b", "d", "l", "m", "n", "u", "x"}
Digits == {"1", "2"}

\* UTF-16 code units, the order used by the JS operators < and === on strings
CharCode(c) ==
    CASE c = "." -> 46 [] c = "/" -> 47 [] c = "1" -> 49 [] c = "2" -> 50
      [] c = "A" -> 65 [] c = "a" -> 97 [] c = "b" -> 98 [] c = "d" -> 100
      [] c = "l" -> 108 [] c = "m" -> 109 [] c = "n" -> 110 [] c = "u" -> 117
      [] c = "x" -> 120 [] OTHER -> 123

DigitVal(c) == IF c = "1" THEN 1 ELSE 2

\* Primary collation weight (sensitivity "base": case is ignored)
CollWeight(c) ==
    CASE c = "." -> 1 [] c = "/" -> 2 [] c = "1" -> 3 [] c = "2" -> 4
      [] c \in {"a", "A"} -> 5 [] c = "b" -> 6 [] c = "d" -> 7
      [] c = "l" -> 8 [] c = "m" -> 9 [] c = "n" -> 10 [] c = "u" -> 11
      [] c = "x" -> 12 [] OTHER -> 13

RECURSIVE DigitRunLen(_)
DigitRunLen(s) ==
    IF s # <<>> /\ Head(s) \in Digits THEN 1 + DigitRunLen(Tail(s)) ELSE 0

RECURSIVE NumVal(_, _)
NumVal(s, n) == IF n = 0 THEN 0 ELSE 10 * NumVal(s, n - 1) + DigitVal(s[n])

Drop(s, n) == SubSeq(s, n + 1, Len(s))

\* Intl.Collator(undefined, {usage: "sort", sensitivity: "base", numeric: true}).compare
RECURSIVE CollatorCompare(_, _)
CollatorCompare(s, t) ==
    IF s = <<>> /\ t = <<>> THEN 0
    ELSE IF s = <<>> THEN -1
    ELSE IF t = <<>> THEN 1
    ELSE IF Head(s) \in Digits /\ Head(t) \in Digits
         THEN LET ns == DigitRunLen(s)
                  nt == DigitRunLen(t)
                  vs == NumVal(s, ns)
                  vt == NumVal(t, nt)
              IN  IF vs # vt THEN Sign(vs - vt)
                  ELSE CollatorCompare(Drop(s, ns), Drop(t, nt))
    ELSE IF CollWeight(Head(s)) # CollWeight(Head(t))
         THEN Sign(CollWeight(Head(s)) - CollWeight(Head(t)))
    ELSE CollatorCompare(Tail(s), Tail(t))

\* Intl.Collator(undefined, {usage: "sort", sensitivity: "base", numeric: false}).compare
RECURSIVE CollatorTrueAlphabeticalCompare(_, _)
CollatorTrueAlphabeticalCompare(s, t) ==
    IF s = <<>> /\ t = <<>> THEN 0
    ELSE IF s = <<>> THEN -1
    ELSE IF t = <<>> THEN 1
    ELSE IF CollWeight(Head(s)) # CollWeight(Head(t))
         THEN Sign(CollWeight(Head(s)) - CollWeight(Head(t)))
    ELSE CollatorTrueAlphabeticalCompare(Tail(s), Tail(t))

\* the JS relational operator < on two strings
RECURSIVE StrLess(_, _)
StrLess(s, t) ==
    IF t = <<>> THEN FALSE
    ELSE IF s = <<>> THEN TRUE
    ELSE IF CharCode(Head(s)) # CharCode(Head(t)) THEN CharCode(Head(s)) < CharCode(Head(t))
    ELSE StrLess(Tail(s), Tail(t))

startsWith(s, p) == Len(p) <= Len(s) /\ SubSeq(s, 1, Len(p)) = p
endsWith(s, p) == Len(p) <= Len(s) /\ SubSeq(s, Len(s) - Len(p) + 1, Len(s)) = p

-----------------------------------------------------------------------------
\* Regular expressions.  A RegExp of the model is
\*     [^] pre [digits+ | digits*] post [$]
\* with the digit part optionally a capture group; pre and post hold no
\* digit, so the greedy digit run never has to backtrack.

Regex(anchorStart, pre, quant, capture, post, anchorEnd) ==
    [anchorStart |-> anchorStart, pre |-> pre, quant |-> quant,
     capture |-> capture, post |-> post, anchorEnd |-> anchorEnd]

\* the match that starts at i, given where the digit part starts (j) and ends (e)
RegexMatchSpan(re, s, i, j, e) ==
    IF /\ j - 1 <= Len(s)
       /\ SubSeq(s, i, j - 1) = re.pre
       /\ (re.quant = "+" => e > j)
       /\ e + Len(re.post) - 1 <= Len(s)
       /\ SubSeq(s, e, e + Len(re.post) - 1) = re.post
       /\ (re.anchorEnd => e + Len(re.post) = Len(s) + 1)
    THEN Some([full |-> SubSeq(s, i, e + Len(re.post) - 1),
               cap |-> IF re.capture THEN Some(SubSeq(s, j, e - 1)) ELSE Undefined])
    ELSE Undefined

\* the greedy digit part that starts at j
RegexDigits(re, s, i, j) ==
    RegexMatchSpan(re, s, i, j,
                   j + (IF re.quant = "none" THEN 0 ELSE DigitRunLen(Drop(s, j - 1))))

\* the match of re that starts at position i (1-based) of s, if there is one
RegexMatchAt(re, s, i) == RegexDigits(re, s, i, i + Len(re.pre))

MatchStarts(re, s) ==
    {i \in (IF re.anchorStart THEN {1} ELSE 1..(Len(s) + 1)) : RegexMatchAt(re, s, i) # Undefined}

LeftmostMatch(re, s, starts) ==
    IF starts = {} THEN Null
    ELSE RegexMatchAt(re, s, CHOOSE i \in starts : \A j \in starts : i <= j)

\* RegExp.prototype.exec: the leftmost match, or null
RegexExec(re, s) == LeftmostMatch(re, s, MatchStarts(re, s))

\* NormalizerFn: (s: string) => string | null
ApplyNormalizer(fn, s) == IF fn = "identity" THEN Some(s) ELSE Null

RegExpSpec(regex, normalizerFn) == [regex |-> regex, normalizerFn |-> normalizerFn]

\* the triple [Matched, RegexMatchedGroup, RegexFullMatch] for the result of exec
MatchTriple(theRegex, match) ==
    IF match # Null
    THEN IF TruthyStr(Val(match).cap)
         THEN [matched |-> TRUE,
               group |-> IF Defined(theRegex.normalizerFn)
                         THEN ApplyNormalizer(Val(theRegex.normalizerFn), Val(Val(match).cap))
                         ELSE Val(match).cap,
               full |-> Some(Val(match).full)]
         ELSE [matched |-> TRUE, group |-> Undefined, full |-> Some(Val(match).full)]
    ELSE [matched |-> FALSE, group |-> Undefined, full |-> Undefined]

matchGroupRegex(theRegex, nameForMatching) ==
    MatchTriple(theRegex, RegexExec(theRegex.regex, nameForMatching))

-----------------------------------------------------------------------------
(* The data model: CustomSort, CustomSortGroup, CustomSortSpec, entries *)

CustomSort(order) == [order |-> order, byMetadata |-> Undefined, metadataValueExtractor |-> Undefined]

GroupDefaults ==
    [exactText |-> Undefined, exactPrefix |-> Undefined, regexPrefix |-> Undefined,
     exactSuffix |-> Undefined, regexSuffix |-> Undefined,
     sorting |-> Undefined, secondarySorting |-> Undefined,
     filesOnly |-> FALSE, matchFilenameWithExt |-> FALSE, foldersOnly |-> FALSE,
     withMetadataFieldName |-> Undefined, iconName |-> Undefined,
     combineWithIdx |-> Undefined]

\* a CustomSortGroup of the given type with the given fields set
CustomSortGroup(type, fields) == ([type |-> type] @@ fields) @@ GroupDefaults

SpecDefaults ==
    [defaultSorting |-> Undefined, defaultSecondarySorting |-> Undefined,
     groups |-> <<>>, groupsShadow |-> Undefined,
     outsidersGroupIdx |-> Undefined, outsidersFilesGroupIdx |-> Undefined,
     outsidersFoldersGroupIdx |-> Undefined,
     itemsToHide |-> Undefined, itemsToIgnore |-> Undefined,
     priorityOrder |-> Undefined]

CustomSortSpec(fields) == fields @@ SpecDefaults

\* TFile / TFolder.  A folder is the entry that has isRoot(); children holds paths.
TFile(path, name, basename, ctime, mtime) ==
    [path |-> path, name |-> name, basename |-> basename, isRoot |-> FALSE,
     stat |-> [ctime |-> ctime, mtime |-> mtime], children |-> <<>>]

TFolder(path, name, children) ==
    [path |-> path, name |-> name, basename |-> <<>>, isRoot |-> TRUE,
     stat |-> [ctime |-> 0, mtime |-> 0], children |-> children]

isFolder(entry) == entry.isRoot

ContextDefaults ==
    [plugin |-> Undefined, _mCache |-> Undefined,
     bookmarksPluginInstance |-> Undefined, iconFolderPluginInstance |-> Undefined]

ProcessingContext(fields) == fields @@ ContextDefaults

\* a lookup in a JS object used as a map: the value, or undefined
Lookup(f, k) == IF k \in DOMAIN f THEN Some(f[k]) ELSE Undefined

-----------------------------------------------------------------------------
(* The lookup collaborators, consumed through ProcessingContext *)

Nullish(o) == o = Undefined \/ o = Null
\* the JS operator ??
Coalesce(a, b) == IF Nullish(a) THEN b ELSE a
\* truthiness of an optional name (metadata field name, icon name, note basename)
TruthyName(o) == ~Nullish(o) /\ Val(o) # ""

DEFAULT_METADATA_FIELD_FOR_SORTING == "sort-index-value"

determineBookmarkOrder(plugin, path) == Lookup(plugin, path)
determineIconOf(entry, plugin) == Lookup(plugin, entry.path)
indexNoteBasename(plugin) == plugin.indexNoteBasename

\* ctx._mCache.getCache(path)?.frontmatter
frontmatterOf(mCache, path) ==
    LET cached == Lookup(mCache, path)
    IN  IF Defined(cached) THEN Val(cached).frontmatter ELSE Undefined

\* frontMatterCache?.hasOwnProperty(name), as the boolean it is used as
hasOwnProperty(frontMatterCache, name) ==
    Defined(frontMatterCache) /\ name \in DOMAIN Val(frontMatterCache)

folderNotePath(entry) == entry.path \o <<"/">> \o entry.name \o <<".", "m", "d">>
indexNotePath(entry, basename) == entry.path \o <<"/">> \o basename \o <<".", "m", "d">>

\* MDataExtractor: the identity, an extractor that takes a value that starts with
\* a digit and signals failure by null for any other, or one that always fails
ApplyExtractor(ex, raw) ==
    IF ex = "identity" THEN raw
    ELSE IF ex = "leadingNumber" /\ TruthyStr(raw) /\ Head(Val(raw)) \in Digits THEN raw
    ELSE Null

mdataValueFromFMCaches(mdataFieldName, mdataExtractor, fc, fcPrio) ==
    LET prioValue == IF Defined(fcPrio) THEN Lookup(Val(fcPrio), mdataFieldName) ELSE Undefined
        rawMDataValue == Coalesce(prioValue,
                                  IF Defined(fc) THEN Lookup(Val(fc), mdataFieldName) ELSE Undefined)
    IN  IF Defined(mdataExtractor) THEN ApplyExtractor(Val(mdataExtractor), rawMDataValue)
        ELSE rawMDataValue

-----------------------------------------------------------------------------
(* determineSortingGroup: the group predicates (the switch on group.type) *)

\* st carries the loop's locals: determined, groupIdx, derivedText,
\* derivedTextWithExt, bookmarkedIdx

\* determined = matched; derivedText = matchedGroup ?? derivedText
RegexOutcome(st, m) ==
    [st EXCEPT !.determined = m.matched, !.derivedText = Coalesce(m.group, st.derivedText)]

\* if (matched) { determined = true; derivedText = matchedGroup ?? derivedText }
RegexOutcomeIfMatched(st, m) ==
    IF m.matched
    THEN [st EXCEPT !.determined = TRUE, !.derivedText = Coalesce(m.group, st.derivedText)]
    ELSE st

ExactPrefixCase(group, nameForMatching, st) ==
    IF TruthyStr(group.exactPrefix)
    THEN IF startsWith(nameForMatching, Val(group.exactPrefix))
         THEN [st EXCEPT !.determined = TRUE] ELSE st
    ELSE RegexOutcome(st, matchGroupRegex(Val(group.regexPrefix), nameForMatching))

ExactSuffixCase(group, nameForMatching, st) ==
    IF TruthyStr(group.exactSuffix)
    THEN IF endsWith(nameForMatching, Val(group.exactSuffix))
         THEN [st EXCEPT !.determined = TRUE] ELSE st
    ELSE RegexOutcome(st, matchGroupRegex(Val(group.regexSuffix), nameForMatching))

\* exactPrefix?.length ?? 0
LenOrZero(o) == IF Defined(o) THEN Len(Val(o)) ELSE 0
\* matchedGroup || ''
StrOrEmpty(o) == IF TruthyStr(o) THEN Val(o) ELSE <<>>

\* a literal on one side, a regexp on the other: m is the regexp's match
HeadAndTailOneRegex(group, nameForMatching, st, m) ==
    IF /\ m.matched
       /\ Len(Val(m.full)) + LenOrZero(group.exactPrefix) + LenOrZero(group.exactSuffix)
              <= Len(nameForMatching)
    THEN [st EXCEPT !.determined = TRUE, !.derivedText = Coalesce(m.group, st.derivedText)]
    ELSE st

\* (matchedGroupLeft || '') + (matchedGroupRight || '')) || derivedText
BothCaptures(st, both) == IF both # <<>> THEN Some(both) ELSE st.derivedText

\* a regexp on both sides: left and right are their matches
HeadAndTailTwoRegex(nameForMatching, st, left, right) ==
    IF /\ left.matched /\ right.matched
       /\ Len(Val(left.full)) + Len(Val(right.full)) <= Len(nameForMatching)
    THEN IF TruthyStr(left.group) \/ TruthyStr(right.group)
         THEN [st EXCEPT !.determined = TRUE,
                         !.derivedText = BothCaptures(st, StrOrEmpty(left.group) \o StrOrEmpty(right.group))]
         ELSE [st EXCEPT !.determined = TRUE]
    ELSE st

\* ExactHeadAndTail without the length test of the two literals
ExactHeadAndTailCase_NoLengthTest(group, nameForMatching, st) ==
    IF TruthyStr(group.exactPrefix) /\ TruthyStr(group.exactSuffix)
    THEN IF /\ startsWith(nameForMatching, Val(group.exactPrefix))
            /\ endsWith(nameForMatching, Val(group.exactSuffix))
         THEN [st EXCEPT !.determined = TRUE] ELSE st
    ELSE IF TruthyStr(group.exactPrefix) \/ TruthyStr(group.exactSuffix)
    THEN IF \/ (TruthyStr(group.exactPrefix) /\ startsWith(nameForMatching, Val(group.exactPrefix)))
            \/ (TruthyStr(group.exactSuffix) /\ endsWith(nameForMatching, Val(group.exactSuffix)))
         THEN HeadAndTailOneRegex(group, nameForMatching, st,
                                  matchGroupRegex(IF TruthyStr(group.exactPrefix)
                                                  THEN Val(group.regexSuffix) ELSE Val(group.regexPrefix),
                                                  nameForMatching))
         ELSE st
    ELSE HeadAndTailTwoRegex(nameForMatching, st,
                             matchGroupRegex(Val(group.regexPrefix), nameForMatching),
                             matchGroupRegex(Val(group.regexSuffix), nameForMatching))

ExactHeadAndTailCase(group, nameForMatching, st) ==
    IF TruthyStr(group.exactPrefix) /\ TruthyStr(group.exactSuffix)
    THEN IF /\ Len(nameForMatching) >= Len(Val(group.exactPrefix)) + Len(Val(group.exactSuffix))
            /\ startsWith(nameForMatching, Val(group.exactPrefix))
            /\ endsWith(nameForMatching, Val(group.exactSuffix))
         THEN [st EXCEPT !.determined = TRUE] ELSE st
    ELSE IF TruthyStr(group.exactPrefix) \/ TruthyStr(group.exactSuffix)
    THEN IF \/ (TruthyStr(group.exactPrefix) /\ startsWith(nameForMatching, Val(group.exactPrefix)))
            \/ (TruthyStr(group.exactSuffix) /\ endsWith(nameForMatching, Val(group.exactSuffix)))
         THEN HeadAndTailOneRegex(group, nameForMatching, st,
                                  matchGroupRegex(IF TruthyStr(group.exactPrefix)
                                                  THEN Val(group.regexSuffix) ELSE Val(group.regexPrefix),
                                                  nameForMatching))
         ELSE st
    ELSE HeadAndTailTwoRegex(nameForMatching, st,
                             matchGroupRegex(Val(group.regexPrefix), nameForMatching),
                             matchGroupRegex(Val(group.regexSuffix), nameForMatching))

ExactNameCase(group, nameForMatching, st) ==
    IF TruthyStr(group.exactText)
    THEN IF nameForMatching = Val(group.exactText)
         THEN [st EXCEPT !.determined = TRUE] ELSE st
    ELSE RegexOutcomeIfMatched(st, matchGroupRegex(Val(group.regexPrefix), nameForMatching))

HasMetadataFieldCase(group, entry, context, st) ==
    IF TruthyName(group.withMetadataFieldName) /\ Defined(context._mCache)
    THEN LET aFolder == isFolder(entry)
             field == Val(group.withMetadataFieldName)
             mCache == Val(context._mCache)
             notePathToScan == IF ~aFolder THEN entry.path ELSE folderNotePath(entry)
             hasOwn == hasOwnProperty(frontmatterOf(mCache, notePathToScan), field)
             indexNote == IF Defined(context.plugin)
                          THEN indexNoteBasename(Val(context.plugin)) ELSE Undefined
             hasMetadata ==
                 IF aFolder /\ TruthyStr(indexNote)
                 THEN hasOwn \/ hasOwnProperty(frontmatterOf(mCache, indexNotePath(entry, Val(indexNote))), field)
                 ELSE hasOwn
         IN  IF hasMetadata THEN [st EXCEPT !.determined = TRUE] ELSE st
    ELSE st

BookmarkedOnlyCase(entry, context, st) ==
    IF Defined(context.bookmarksPluginInstance)
    THEN LET bookmarkOrder == determineBookmarkOrder(Val(context.bookmarksPluginInstance), entry.path)
         IN  IF TruthyNum(bookmarkOrder)
             THEN [st EXCEPT !.determined = TRUE, !.bookmarkedIdx = bookmarkOrder]
             ELSE st
    ELSE st

HasIconCase(group, entry, context, st) ==
    IF Defined(context.iconFolderPluginInstance)
    THEN LET iconName == determineIconOf(entry, Val(context.iconFolderPluginInstance))
         IN  IF TruthyName(iconName)
             THEN IF TruthyName(group.iconName)
                  THEN [st EXCEPT !.determined = (iconName = group.iconName)]
                  ELSE [st EXCEPT !.determined = TRUE]
             ELSE st
    ELSE st

\* the switch statement; case BookmarkedOnly has no break and runs on into case HasIcon
GroupSwitch(group, entry, context, nameForMatching, st) ==
    CASE group.type = "ExactPrefix" -> ExactPrefixCase(group, nameForMatching, st)
      [] group.type = "ExactSuffix" -> ExactSuffixCase(group, nameForMatching, st)
      [] group.type = "ExactHeadAndTail" -> ExactHeadAndTailCase(group, nameForMatching, st)
      [] group.type = "ExactName" -> ExactNameCase(group, nameForMatching, st)
      [] group.type = "HasMetadataField" -> HasMetadataFieldCase(group, entry, context, st)
      [] group.type = "BookmarkedOnly" ->
            HasIconCase(group, entry, context, BookmarkedOnlyCase(entry, context, st))
      [] group.type = "HasIcon" -> HasIconCase(group, entry, context, st)
      [] group.type = "MatchAll" -> [st EXCEPT !.determined = TRUE]
      [] OTHER -> st

-----------------------------------------------------------------------------
(* determineSortingGroup: the loop over the evaluation order and the result *)

basenameOf(entry) == IF isFolder(entry) THEN entry.name ELSE entry.basename

numOfGroupsToCheck(spec) ==
    IF Defined(spec.priorityOrder) THEN Len(Val(spec.priorityOrder)) ELSE Len(spec.groups)

\* the end of an iteration with the derived text joined without the separator
JoinDerivedText_NoSeparator(entry, st) ==
    IF st.determined /\ TruthyStr(st.derivedText)
    THEN [st EXCEPT !.derivedTextWithExt = Some(Val(st.derivedText) \o entry.name),
                    !.derivedText = Some(Val(st.derivedText) \o basenameOf(entry))]
    ELSE st

\* the end of an iteration: the derived text is joined with the entry's names
JoinDerivedText(entry, st) ==
    IF st.determined /\ TruthyStr(st.derivedText)
    THEN [st EXCEPT !.derivedTextWithExt = Some(Val(st.derivedText) \o <<"/", "/">> \o entry.name),
                    !.derivedText = Some(Val(st.derivedText) \o <<"/", "/">> \o basenameOf(entry))]
    ELSE st

\* the body of the loop without the foldersOnly / filesOnly tests
TestGroup_NoKindTest(entry, group, context, st) ==
    JoinDerivedText(entry,
        GroupSwitch(group, entry, context,
                    IF group.matchFilenameWithExt THEN entry.name ELSE basenameOf(entry), st))

\* the body of the loop for the group under test; st has derivedText and groupIdx set
TestGroup(entry, group, context, st) ==
    IF group.foldersOnly /\ ~isFolder(entry) THEN st
    ELSE IF group.filesOnly /\ isFolder(entry) THEN st
    ELSE JoinDerivedText(entry,
             GroupSwitch(group, entry, context,
                         IF group.matchFilenameWithExt THEN entry.name ELSE basenameOf(entry), st))

\* groupIdx = spec.priorityOrder ? spec.priorityOrder[idx] : idx
GroupIdxAt(spec, idx) ==
    IF Defined(spec.priorityOrder) THEN At(Val(spec.priorityOrder), idx) ELSE idx

\* group = spec.groupsShadow ? spec.groupsShadow[groupIdx] : spec.groups[groupIdx]
GroupToTest(spec, groupIdx) ==
    IF Defined(spec.groupsShadow) THEN At(Val(spec.groupsShadow), groupIdx)
    ELSE At(spec.groups, groupIdx)

\* one iteration of the for loop, for loop index idx
LoopBody(entry, spec, context, idx, st) ==
    TestGroup(entry, GroupToTest(spec, GroupIdxAt(spec, idx)), context,
              [st EXCEPT !.derivedText = Null, !.groupIdx = Some(GroupIdxAt(spec, idx))])

\* for (let idx = 0; idx < numOfGroupsToCheck && !determined; idx++)
RECURSIVE GroupLoop(_, _, _, _, _)
GroupLoop(entry, spec, context, idx, st) ==
    IF idx < numOfGroupsToCheck(spec) /\ ~st.determined
    THEN GroupLoop(entry, spec, context, idx + 1, LoopBody(entry, spec, context, idx, st))
    ELSE st

LoopLocals ==
    [determined |-> FALSE, groupIdx |-> Undefined, derivedText |-> Undefined,
     derivedTextWithExt |-> Undefined, bookmarkedIdx |-> Undefined]

\* spec.groups[idx], undefined when idx is past the end
GroupAt(groups, idx) ==
    IF idx \in 0..(Len(groups) - 1) THEN Some(At(groups, idx)) ELSE Undefined

\* x?.order
OrderOf(sorting) == IF Defined(sorting) THEN Some(Val(sorting).order) ELSE Undefined

MetadataOrders ==
    {"byMetadataFieldAlphabetical", "byMetadataFieldAlphabeticalReverse",
     "byMetadataFieldTrueAlphabetical", "byMetadataFieldTrueAlphabeticalReverse"}

isByMetadata(order) == Defined(order) /\ Val(order) \in MetadataOrders

\* the outsiders resolution with the general bucket tested before the two specific ones
ResolveGroupIdx_GeneralOutsidersFirst(entry, spec, st) ==
    IF st.determined
    THEN [determined |-> TRUE,
          idx |-> IF Defined(At(spec.groups, Val(st.groupIdx)).combineWithIdx)
                  THEN At(spec.groups, Val(st.groupIdx)).combineWithIdx ELSE st.groupIdx]
    ELSE IF Defined(spec.outsidersGroupIdx)
    THEN [determined |-> TRUE, idx |-> spec.outsidersGroupIdx]
    ELSE IF Defined(spec.outsidersFilesGroupIdx) /\ ~isFolder(entry)
    THEN [determined |-> TRUE, idx |-> spec.outsidersFilesGroupIdx]
    ELSE IF Defined(spec.outsidersFoldersGroupIdx) /\ isFolder(entry)
    THEN [determined |-> TRUE, idx |-> spec.outsidersFoldersGroupIdx]
    ELSE [determined |-> FALSE, idx |-> Some(Len(spec.groups))]

\* redirection to the first group of combined, then the outsiders resolution
ResolveGroupIdx(entry, spec, st) ==
    LET idxAfterLastGroupIdx == Len(spec.groups)
        matchedIdx == IF st.determined THEN Val(st.groupIdx) ELSE idxAfterLastGroupIdx
        combinedGroupIdx == IF st.determined THEN At(spec.groups, matchedIdx).combineWithIdx
                            ELSE Undefined
    IN  IF st.determined
        THEN [determined |-> TRUE,
              idx |-> IF Defined(combinedGroupIdx) THEN combinedGroupIdx ELSE Some(matchedIdx)]
        ELSE IF Defined(spec.outsidersFilesGroupIdx) /\ ~isFolder(entry)
        THEN [determined |-> TRUE, idx |-> spec.outsidersFilesGroupIdx]
        ELSE IF Defined(spec.outsidersFoldersGroupIdx) /\ isFolder(entry)
        THEN [determined |-> TRUE, idx |-> spec.outsidersFoldersGroupIdx]
        ELSE IF Defined(spec.outsidersGroupIdx)
        THEN [determined |-> TRUE, idx |-> spec.outsidersGroupIdx]
        ELSE [determined |-> FALSE, idx |-> Some(idxAfterLastGroupIdx)]

\* the four metadata values to sort by (lines 656-706)
MetadataValues(entry, spec, context, resolved) ==
    LET none == [primary |-> Undefined, secondary |-> Undefined,
                 derivedPrimary |-> Undefined, derivedSecondary |-> Undefined]
        groupOpt == GroupAt(spec.groups, Val(resolved.idx))
        groupSorting == IF Defined(groupOpt) THEN Val(groupOpt).sorting ELSE Undefined
        groupSecondary == IF Defined(groupOpt) THEN Val(groupOpt).secondarySorting ELSE Undefined
        groupField == IF Defined(groupOpt) THEN Val(groupOpt).withMetadataFieldName ELSE Undefined
        isPrimaryOrderByMetadata == isByMetadata(OrderOf(groupSorting))
        isSecondaryOrderByMetadata == isByMetadata(OrderOf(groupSecondary))
        isDerivedPrimaryByMetadata == isByMetadata(OrderOf(spec.defaultSorting))
        isDerivedSecondaryByMetadata == isByMetadata(OrderOf(spec.defaultSecondarySorting))
        aFolder == isFolder(entry)
        mCache == Val(context._mCache)
        notePathToScan == IF ~aFolder THEN entry.path ELSE folderNotePath(entry)
        frontMatterCache == frontmatterOf(mCache, notePathToScan)
        indexNote == IF Defined(context.plugin)
                     THEN indexNoteBasename(Val(context.plugin)) ELSE Undefined
        prioFrontMatterCache ==
            IF aFolder /\ TruthyStr(indexNote)
            THEN frontmatterOf(mCache, indexNotePath(entry, Val(indexNote)))
            ELSE Undefined
        \* sorting.byMetadata || group.withMetadataFieldName || DEFAULT_METADATA_FIELD_FOR_SORTING
        groupKey(sorting) ==
            IF TruthyName(Val(sorting).byMetadata) THEN Val(Val(sorting).byMetadata)
            ELSE IF TruthyName(groupField) THEN Val(groupField)
            ELSE DEFAULT_METADATA_FIELD_FOR_SORTING
        specKey(sorting) ==
            IF TruthyName(Val(sorting).byMetadata) THEN Val(Val(sorting).byMetadata)
            ELSE DEFAULT_METADATA_FIELD_FOR_SORTING
        value(key, sorting) ==
            mdataValueFromFMCaches(key, Val(sorting).metadataValueExtractor,
                                   frontMatterCache, prioFrontMatterCache)
    IN  IF /\ resolved.determined /\ Defined(resolved.idx)
           /\ (isPrimaryOrderByMetadata \/ isSecondaryOrderByMetadata
                 \/ isDerivedPrimaryByMetadata \/ isDerivedSecondaryByMetadata)
           /\ Defined(context._mCache)
        THEN [primary |-> IF isPrimaryOrderByMetadata
                          THEN value(groupKey(groupSorting), groupSorting) ELSE Undefined,
              secondary |-> IF isSecondaryOrderByMetadata
                            THEN value(groupKey(groupSecondary), groupSecondary) ELSE Undefined,
              derivedPrimary |-> IF isDerivedPrimaryByMetadata
                                 THEN value(specKey(spec.defaultSorting), spec.defaultSorting)
                                 ELSE Undefined,
              derivedSecondary |-> IF isDerivedSecondaryByMetadata
                                   THEN value(specKey(spec.defaultSecondarySorting),
                                              spec.defaultSecondarySorting)
                                   ELSE Undefined]
        ELSE none

DEFAULT_FOLDER_MTIME == 0
DEFAULT_FOLDER_CTIME == 0

\* the returned object with groupIdx left undefined when nothing was determined
FolderItemForSorting_NoSentinel(entry, st, resolved, mdata) ==
    [groupIdx |-> IF resolved.determined THEN resolved.idx ELSE Undefined,
     sortString |-> IF Nullish(st.derivedText) THEN basenameOf(entry) ELSE Val(st.derivedText),
     sortStringWithExt |-> IF TruthyStr(st.derivedText) THEN Val(st.derivedTextWithExt)
                           ELSE entry.name,
     metadataFieldValue |-> mdata.primary,
     metadataFieldValueSecondary |-> mdata.secondary,
     metadataFieldValueForDerived |-> mdata.derivedPrimary,
     metadataFieldValueForDerivedSecondary |-> mdata.derivedSecondary,
     isFolder |-> isFolder(entry),
     folder |-> IF isFolder(entry) THEN Some(entry) ELSE Undefined,
     path |-> entry.path,
     ctime |-> IF ~isFolder(entry) THEN entry.stat.ctime ELSE 0,
     mtime |-> IF ~isFolder(entry) THEN entry.stat.mtime ELSE 0,
     bookmarkedIdx |-> st.bookmarkedIdx]

\* the object determineSortingGroup returns
FolderItemForSorting(entry, st, resolved, mdata) ==
    [groupIdx |-> resolved.idx,
     sortString |-> IF Nullish(st.derivedText) THEN basenameOf(entry) ELSE Val(st.derivedText),
     sortStringWithExt |-> IF TruthyStr(st.derivedText) THEN Val(st.derivedTextWithExt)
                           ELSE entry.name,
     metadataFieldValue |-> mdata.primary,
     metadataFieldValueSecondary |-> mdata.secondary,
     metadataFieldValueForDerived |-> mdata.derivedPrimary,
     metadataFieldValueForDerivedSecondary |-> mdata.derivedSecondary,
     isFolder |-> isFolder(entry),
     folder |-> IF isFolder(entry) THEN Some(entry) ELSE Undefined,
     path |-> entry.path,
     ctime |-> IF ~isFolder(entry) THEN entry.stat.ctime ELSE DEFAULT_FOLDER_CTIME,
     mtime |-> IF ~isFolder(entry) THEN entry.stat.mtime ELSE DEFAULT_FOLDER_MTIME,
     bookmarkedIdx |-> st.bookmarkedIdx]

\* the part of determineSortingGroup after the group index is resolved
AfterResolve(entry, spec, context, st, resolved) ==
    FolderItemForSorting(entry, st, resolved, MetadataValues(entry, spec, context, resolved))

\* the part of determineSortingGroup after the loop
AfterLoop(entry, spec, context, st) ==
    AfterResolve(entry, spec, context, st, ResolveGroupIdx(entry, spec, st))

determineSortingGroup(entry, spec, context) ==
    AfterLoop(entry, spec, context, GroupLoop(entry, spec, context, 0, LoopLocals))

-----------------------------------------------------------------------------
(* The sorter registry *)

EQUAL_OR_UNCOMPARABLE == 0

getMdata(it, mdataId) ==
    CASE mdataId = "forSecondary" -> it.metadataFieldValueSecondary
      [] mdataId = "forDerivedPrimary" -> it.metadataFieldValueForDerived
      [] mdataId = "forDerivedSecondary" -> it.metadataFieldValueForDerivedSecondary
      [] OTHER -> it.metadataFieldValue

\* the string a collator sees for a metadata value (null is converted to "null")
MdataStr(v) == IF v = Null THEN <<"n", "u", "l", "l">> ELSE Val(v)

sorterByMetadataField(reverseOrder, trueAlphabetical, sortLevelId, a, b) ==
    LET amdata == IF reverseOrder THEN getMdata(b, sortLevelId) ELSE getMdata(a, sortLevelId)
        bmdata == IF reverseOrder THEN getMdata(a, sortLevelId) ELSE getMdata(b, sortLevelId)
    IN  IF amdata # Undefined /\ bmdata # Undefined
        THEN IF trueAlphabetical
             THEN CollatorTrueAlphabeticalCompare(MdataStr(amdata), MdataStr(bmdata))
             ELSE CollatorCompare(MdataStr(amdata), MdataStr(bmdata))
        ELSE IF amdata # Undefined THEN (IF reverseOrder THEN 1 ELSE -1)
        ELSE IF bmdata # Undefined THEN (IF reverseOrder THEN -1 ELSE 1)
        ELSE EQUAL_OR_UNCOMPARABLE

\* the bookmark sorter whose reverse variant is the straight one with the arguments swapped
sorterByBookmarkOrder_PlainSwap(reverseOrder, a0, b0) ==
    LET a == IF reverseOrder THEN b0 ELSE a0
        b == IF reverseOrder THEN a0 ELSE b0
    IN  IF TruthyNum(a.bookmarkedIdx) /\ TruthyNum(b.bookmarkedIdx)
        THEN Val(a.bookmarkedIdx) - Val(b.bookmarkedIdx)
        ELSE IF TruthyNum(a.bookmarkedIdx) THEN -1
        ELSE IF TruthyNum(b.bookmarkedIdx) THEN 1
        ELSE EQUAL_OR_UNCOMPARABLE

sorterByBookmarkOrder(reverseOrder, a0, b0) ==
    LET a == IF reverseOrder THEN b0 ELSE a0
        b == IF reverseOrder THEN a0 ELSE b0
    IN  IF TruthyNum(a.bookmarkedIdx) /\ TruthyNum(b.bookmarkedIdx)
        THEN Val(a.bookmarkedIdx) - Val(b.bookmarkedIdx)
        ELSE IF TruthyNum(a.bookmarkedIdx) THEN (IF reverseOrder THEN 1 ELSE -1)
        ELSE IF TruthyNum(b.bookmarkedIdx) THEN (IF reverseOrder THEN -1 ELSE 1)
        ELSE EQUAL_OR_UNCOMPARABLE

\* the created-date sorter that orders two entries without a date first-before-second
sorterByFolderCDate_UndeterminedOrdered(reverseOrder, a0, b0) ==
    LET a == IF reverseOrder THEN b0 ELSE a0
        b == IF reverseOrder THEN a0 ELSE b0
    IN  IF a.ctime # 0 /\ b.ctime # 0 THEN a.ctime - b.ctime
        ELSE IF a.ctime # 0 THEN (IF reverseOrder THEN 1 ELSE -1)
        ELSE IF b.ctime # 0 THEN (IF reverseOrder THEN -1 ELSE 1)
        ELSE -1

sorterByFolderCDate(reverseOrder, a0, b0) ==
    LET a == IF reverseOrder THEN b0 ELSE a0
        b == IF reverseOrder THEN a0 ELSE b0
    IN  IF a.ctime # 0 /\ b.ctime # 0 THEN a.ctime - b.ctime
        ELSE IF a.ctime # 0 THEN (IF reverseOrder THEN 1 ELSE -1)
        ELSE IF b.ctime # 0 THEN (IF reverseOrder THEN -1 ELSE 1)
        ELSE EQUAL_OR_UNCOMPARABLE

sorterByFolderMDate(reverseOrder, a0, b0) ==
    LET a == IF reverseOrder THEN b0 ELSE a0
        b == IF reverseOrder THEN a0 ELSE b0
    IN  IF a.mtime # 0 /\ b.mtime # 0 THEN a.mtime - b.mtime
        ELSE IF a.mtime # 0 THEN (IF reverseOrder THEN 1 ELSE -1)
        ELSE IF b.mtime # 0 THEN (IF reverseOrder THEN -1 ELSE 1)
        ELSE EQUAL_OR_UNCOMPARABLE

fileGoesFirstWhenSameBasenameAsFolder(stringCompareResult, a, b) ==
    IF stringCompareResult # 0 THEN stringCompareResult
    ELSE IF a.isFolder = b.isFolder THEN EQUAL_OR_UNCOMPARABLE
    ELSE IF a.isFolder THEN 1 ELSE -1

folderGoesFirstWhenSameBasenameAsFolder(stringCompareResult, a, b) ==
    IF stringCompareResult # 0 THEN stringCompareResult
    ELSE IF a.isFolder = b.isFolder THEN EQUAL_OR_UNCOMPARABLE
    ELSE IF a.isFolder THEN -1 ELSE 1

CustomSortOrder ==
    {"alphabetical", "alphabeticalWithFileExt", "trueAlphabetical", "trueAlphabeticalWithFileExt",
     "alphabeticalReverse", "alphabeticalReverseWithFileExt", "trueAlphabeticalReverse",
     "trueAlphabeticalReverseWithFileExt",
     "byModifiedTime", "byModifiedTimeAdvanced", "byModifiedTimeAdvancedRecursive",
     "byModifiedTimeReverse", "byModifiedTimeReverseAdvanced", "byModifiedTimeReverseAdvancedRecursive",
     "byCreatedTime", "byCreatedTimeAdvanced", "byCreatedTimeAdvancedRecursive",
     "byCreatedTimeReverse", "byCreatedTimeReverseAdvanced", "byCreatedTimeReverseAdvancedRecursive",
     "byMetadataFieldAlphabetical", "byMetadataFieldTrueAlphabetical",
     "byMetadataFieldAlphabeticalReverse", "byMetadataFieldTrueAlphabeticalReverse",
     "standardObsidian", "byBookmarkOrder", "byBookmarkOrderReverse", "fileFirst", "folderFirst",
     "alphabeticalWithFilesPreferred", "alphabeticalWithFoldersPreferred",
     "vscUnicode", "vscUnicodeReverse"}

\* CustomSortOrder.default
DefaultOrder == "alphabeticalWithFilesPreferred"

\* the metadata sorters, which read the value of the comparison level they are built for
MetadataSorter(order, sortLevelId, a, b) ==
    CASE order = "byMetadataFieldAlphabetical" -> sorterByMetadataField(FALSE, FALSE, sortLevelId, a, b)
      [] order = "byMetadataFieldTrueAlphabetical" -> sorterByMetadataField(FALSE, TRUE, sortLevelId, a, b)
      [] order = "byMetadataFieldAlphabeticalReverse" -> sorterByMetadataField(TRUE, FALSE, sortLevelId, a, b)
      [] order = "byMetadataFieldTrueAlphabeticalReverse" -> sorterByMetadataField(TRUE, TRUE, sortLevelId, a, b)

Sorters(order, a, b) ==
    CASE order = "alphabetical" -> CollatorCompare(a.sortString, b.sortString)
      [] order = "alphabeticalWithFilesPreferred" ->
            fileGoesFirstWhenSameBasenameAsFolder(CollatorCompare(a.sortString, b.sortString), a, b)
      [] order = "alphabeticalWithFoldersPreferred" ->
            fileGoesFirstWhenSameBasenameAsFolder(CollatorCompare(a.sortString, b.sortString), a, b)
      [] order = "alphabeticalWithFileExt" -> CollatorCompare(a.sortStringWithExt, b.sortStringWithExt)
      [] order = "trueAlphabetical" -> CollatorTrueAlphabeticalCompare(a.sortString, b.sortString)
      [] order = "trueAlphabeticalWithFileExt" ->
            CollatorTrueAlphabeticalCompare(a.sortStringWithExt, b.sortStringWithExt)
      [] order = "alphabeticalReverse" -> CollatorCompare(b.sortString, a.sortString)
      [] order = "alphabeticalReverseWithFileExt" -> CollatorCompare(b.sortStringWithExt, a.sortStringWithExt)
      [] order = "trueAlphabeticalReverse" -> CollatorTrueAlphabeticalCompare(b.sortString, a.sortString)
      [] order = "trueAlphabeticalReverseWithFileExt" ->
            CollatorTrueAlphabeticalCompare(b.sortStringWithExt, a.sortStringWithExt)
      [] order = "byModifiedTime" ->
            IF a.isFolder /\ b.isFolder THEN CollatorCompare(a.sortString, b.sortString)
            ELSE a.mtime - b.mtime
      [] order = "byModifiedTimeAdvanced" -> sorterByFolderMDate(FALSE, a, b)
      [] order = "byModifiedTimeAdvancedRecursive" -> sorterByFolderMDate(FALSE, a, b)
      [] order = "byModifiedTimeReverse" ->
            IF a.isFolder /\ b.isFolder THEN CollatorCompare(a.sortString, b.sortString)
            ELSE b.mtime - a.mtime
      [] order = "byModifiedTimeReverseAdvanced" -> sorterByFolderMDate(TRUE, a, b)
      [] order = "byModifiedTimeReverseAdvancedRecursive" -> sorterByFolderMDate(TRUE, a, b)
      [] order = "byCreatedTime" ->
            IF a.isFolder /\ b.isFolder THEN CollatorCompare(a.sortString, b.sortString)
            ELSE a.ctime - b.ctime
      [] order = "byCreatedTimeAdvanced" -> sorterByFolderCDate(FALSE, a, b)
      [] order = "byCreatedTimeAdvancedRecursive" -> sorterByFolderCDate(FALSE, a, b)
      [] order = "byCreatedTimeReverse" ->
            IF a.isFolder /\ b.isFolder THEN CollatorCompare(a.sortString, b.sortString)
            ELSE b.ctime - a.ctime
      [] order = "byCreatedTimeReverseAdvanced" -> sorterByFolderCDate(TRUE, a, b)
      [] order = "byCreatedTimeReverseAdvancedRecursive" -> sorterByFolderCDate(TRUE, a, b)
      [] order \in MetadataOrders -> MetadataSorter(order, "forPrimary", a, b)
      [] order = "byBookmarkOrder" -> sorterByBookmarkOrder(FALSE, a, b)
      [] order = "byBookmarkOrderReverse" -> sorterByBookmarkOrder(TRUE, a, b)
      [] order = "fileFirst" ->
            IF a.isFolder = b.isFolder THEN EQUAL_OR_UNCOMPARABLE ELSE IF a.isFolder THEN 1 ELSE -1
      [] order = "folderFirst" ->
            IF a.isFolder = b.isFolder THEN EQUAL_OR_UNCOMPARABLE ELSE IF a.isFolder THEN -1 ELSE 1
      [] order = "vscUnicode" ->
            IF a.sortString = b.sortString THEN EQUAL_OR_UNCOMPARABLE
            ELSE IF StrLess(a.sortString, b.sortString) THEN -1 ELSE 1
      [] order = "vscUnicodeReverse" ->
            IF a.sortString = b.sortString THEN EQUAL_OR_UNCOMPARABLE
            ELSE IF StrLess(b.sortString, a.sortString) THEN -1 ELSE 1
      [] order = "standardObsidian" -> CollatorCompare(a.sortString, b.sortString)

\* SortersForSecondary / SortersForDerivedPrimary / SortersForDerivedSecondary:
\* defined for the metadata orders only
LevelSorters(order, sortLevelId, a, b) ==
    IF order \in MetadataOrders THEN MetadataSorter(order, sortLevelId, a, b)
    ELSE Sorters(order, a, b)

\* the order names of the host (OS - Obsidian Sort)
OS_alphabetical == "alphabetical"
OS_alphabeticalReverse == "alphabeticalReverse"
OS_byModifiedTime == "byModifiedTime"
OS_byModifiedTimeReverse == "byModifiedTimeReverse"
OS_byCreatedTime == "byCreatedTime"
OS_byCreatedTimeReverse == "byCreatedTimeReverse"

\* StandardObsidianToCustomSort[name]: the order, or undefined
\* the table with each host name under the ordering of the same name
StandardObsidianToCustomSort_SameName(name) ==
    IF name \in {OS_alphabetical, OS_alphabeticalReverse, OS_byModifiedTime,
                 OS_byModifiedTimeReverse, OS_byCreatedTime, OS_byCreatedTimeReverse}
    THEN Some(name) ELSE Undefined

StandardObsidianToCustomSort(name) ==
    CASE name = OS_alphabetical -> Some("alphabetical")
      [] name = OS_alphabeticalReverse -> Some("alphabeticalReverse")
      [] name = OS_byModifiedTime -> Some("byModifiedTimeReverse")
      [] name = OS_byModifiedTimeReverse -> Some("byModifiedTime")
      [] name = OS_byCreatedTime -> Some("byCreatedTimeReverse")
      [] name = OS_byCreatedTimeReverse -> Some("byCreatedTime")
      [] OTHER -> Undefined

StandardObsidianComparator(order, a, b) ==
    IF a.isFolder \/ b.isFolder
    THEN IF a.isFolder /\ ~b.isFolder THEN -1
         ELSE IF b.isFolder /\ ~a.isFolder THEN 1
         ELSE Sorters("alphabetical", a, b)
    ELSE Sorters(order, a, b)

\* getSorterFnFor(order, currentUIselectedSorting, sortLevelId)(a, b)
getSorterFnFor(order, currentUIselectedSorting, sortLevelId, a, b) ==
    IF order = "standardObsidian"
    THEN LET mapped == StandardObsidianToCustomSort(Val(Coalesce(currentUIselectedSorting,
                                                                  Some("alphabetical"))))
         IN  StandardObsidianComparator(Val(Coalesce(mapped, Some("alphabetical"))), a, b)
    ELSE IF sortLevelId \in {"forSecondary", "forDerivedPrimary", "forDerivedSecondary"}
         THEN LevelSorters(order, sortLevelId, a, b)
         ELSE Sorters(order, a, b)

-----------------------------------------------------------------------------
(* getComparator: the multi-level comparator *)

\* one cascade level: the level's sorter when the level is configured, else neutral
LevelResult(sorting, currentUIselectedSorting, sortLevelId, itA, itB) ==
    IF Defined(sorting)
    THEN getSorterFnFor(Val(sorting).order, currentUIselectedSorting, sortLevelId, itA, itB)
    ELSE EQUAL_OR_UNCOMPARABLE

\* the cascade with a pair that every level leaves neutral ordered first-before-second
Cascade_NeverNeutral(primary, secondary, folderLevel, folderLevelSecondary, defaultForUnspecified) ==
    IF primary # 0 THEN primary
    ELSE IF secondary # 0 THEN secondary
    ELSE IF folderLevel # 0 THEN folderLevel
    ELSE IF folderLevelSecondary # 0 THEN folderLevelSecondary
    ELSE IF defaultForUnspecified # 0 THEN defaultForUnspecified
    ELSE -1

\* the cascade: the first level that is not EQUAL_OR_UNCOMPARABLE decides
Cascade(primary, secondary, folderLevel, folderLevelSecondary, defaultForUnspecified) ==
    IF primary # EQUAL_OR_UNCOMPARABLE THEN primary
    ELSE IF secondary # EQUAL_OR_UNCOMPARABLE THEN secondary
    ELSE IF folderLevel # EQUAL_OR_UNCOMPARABLE THEN folderLevel
    ELSE IF folderLevelSecondary # EQUAL_OR_UNCOMPARABLE THEN folderLevelSecondary
    ELSE defaultForUnspecified

\* group?.sorting and group?.secondarySorting of the optional group
SortingOf(group) == IF Defined(group) THEN Val(group).sorting ELSE Undefined
SecondarySortingOf(group) == IF Defined(group) THEN Val(group).secondarySorting ELSE Undefined

\* the cascade with the folder's default orderings consulted before the group's own
SameGroupCascade_FolderLevelsFirst(sortSpec, currentUIselectedSorting, itA, itB) ==
    Cascade(LevelResult(sortSpec.defaultSorting,
                        currentUIselectedSorting, "forDerivedPrimary", itA, itB),
            LevelResult(sortSpec.defaultSecondarySorting,
                        currentUIselectedSorting, "forDerivedSecondary", itA, itB),
            LevelResult(SortingOf(GroupAt(sortSpec.groups, Val(itA.groupIdx))),
                        currentUIselectedSorting, "forPrimary", itA, itB),
            LevelResult(SecondarySortingOf(GroupAt(sortSpec.groups, Val(itA.groupIdx))),
                        currentUIselectedSorting, "forSecondary", itA, itB),
            getSorterFnFor(DefaultOrder, Undefined, "forDefaultWhenUnspecified", itA, itB))

\* compareTwoItems for two items of the same group
SameGroupCascade(sortSpec, currentUIselectedSorting, itA, itB) ==
    Cascade(LevelResult(SortingOf(GroupAt(sortSpec.groups, Val(itA.groupIdx))),
                        currentUIselectedSorting, "forPrimary", itA, itB),
            LevelResult(SecondarySortingOf(GroupAt(sortSpec.groups, Val(itA.groupIdx))),
                        currentUIselectedSorting, "forSecondary", itA, itB),
            LevelResult(sortSpec.defaultSorting,
                        currentUIselectedSorting, "forDerivedPrimary", itA, itB),
            LevelResult(sortSpec.defaultSecondarySorting,
                        currentUIselectedSorting, "forDerivedSecondary", itA, itB),
            getSorterFnFor(DefaultOrder, Undefined, "forDefaultWhenUnspecified", itA, itB))

\* the comparator with the group index consulted only when the cascade is neutral
compareTwoItems_CascadeBeforeGroupIdx(sortSpec, currentUIselectedSorting, itA, itB) ==
    IF itA.groupIdx # Undefined /\ itB.groupIdx # Undefined
    THEN IF SameGroupCascade(sortSpec, currentUIselectedSorting, itA, itB) # EQUAL_OR_UNCOMPARABLE
         THEN SameGroupCascade(sortSpec, currentUIselectedSorting, itA, itB)
         ELSE Val(itA.groupIdx) - Val(itB.groupIdx)
    ELSE IF itA.groupIdx # Undefined THEN -1
    ELSE IF itB.groupIdx # Undefined THEN 1
    ELSE getSorterFnFor(DefaultOrder, currentUIselectedSorting, "forPrimary", itA, itB)

\* getComparator(sortSpec, currentUIselectedSorting)(itA, itB)
compareTwoItems(sortSpec, currentUIselectedSorting, itA, itB) ==
    IF itA.groupIdx # Undefined /\ itB.groupIdx # Undefined
    THEN IF itA.groupIdx = itB.groupIdx
         THEN SameGroupCascade(sortSpec, currentUIselectedSorting, itA, itB)
         ELSE Val(itA.groupIdx) - Val(itB.groupIdx)
    ELSE IF itA.groupIdx # Undefined THEN -1
    ELSE IF itB.groupIdx # Undefined THEN 1
    ELSE getSorterFnFor(DefaultOrder, currentUIselectedSorting, "forPrimary", itA, itB)

-----------------------------------------------------------------------------
(* The host-default comparator on raw entries *)

\* a comparison either returns a number or throws
Returned(n) == [threw |-> FALSE, value |-> n]
Thrown == [threw |-> TRUE, value |-> 0]

PlainSortFnNames ==
    {OS_alphabetical, OS_alphabeticalReverse, OS_byModifiedTime, OS_byModifiedTimeReverse,
     OS_byCreatedTime, OS_byCreatedTimeReverse}

\* StandardObsidianToPlainSortFn[name](a, b), for the six names it is defined for
StandardObsidianToPlainSortFn(name, a, b) ==
    CASE name = OS_alphabetical -> CollatorCompare(a.basename, b.basename)
      [] name = OS_alphabeticalReverse -> -CollatorCompare(a.basename, b.basename)
      [] name = OS_byModifiedTime -> b.stat.mtime - a.stat.mtime
      [] name = OS_byModifiedTimeReverse -> -(b.stat.mtime - a.stat.mtime)
      [] name = OS_byCreatedTime -> b.stat.ctime - a.stat.ctime
      [] name = OS_byCreatedTimeReverse -> -(b.stat.ctime - a.stat.ctime)

\* StandardPlainObsidianComparator(order)(a, b).  For a name outside the table
\* fileSorterFn is StandardObsidianToCustomSort[OS_alphabetical], the number 1,
\* and calling it throws a TypeError.
StandardPlainObsidianComparator(order, a, b) ==
    LET aIsFolder == isFolder(a)
        bIsFolder == isFolder(b)
    IN  IF aIsFolder \/ bIsFolder
        THEN Returned(IF aIsFolder /\ ~bIsFolder THEN -1
                      ELSE IF bIsFolder /\ ~aIsFolder THEN 1
                      ELSE CollatorCompare(a.name, b.name))
        ELSE IF order \in PlainSortFnNames
             THEN Returned(StandardObsidianToPlainSortFn(order, a, b))
             ELSE Thrown

-----------------------------------------------------------------------------
(* Array.prototype.sort of the host (V8, arrays of fewer than 32 elements): *)
(* the leading run is found and, when strictly descending, reversed; the    *)
(* remaining elements are put in place by binary insertion.  The array is   *)
(* a sequence of indices into the sorted list; table[x][y] is the result of *)
(* comparefn(element x, element y).                                         *)

Reverse(arr) == [i \in 1..Len(arr) |-> arr[Len(arr) + 1 - i]]

\* CountAndMakeRun: the length of the run that starts the array
RECURSIVE RunLength(_, _, _, _)
RunLength(table, arr, isDescending, idx) ==
    IF idx > Len(arr) THEN [threw |-> FALSE, len |-> idx - 1]
    ELSE LET order == table[arr[idx]][arr[idx - 1]]
         IN  IF order.threw THEN [threw |-> TRUE, len |-> 0]
             ELSE IF (isDescending /\ order.value >= 0) \/ (~isDescending /\ order.value < 0)
                  THEN [threw |-> FALSE, len |-> idx - 1]
                  ELSE RunLength(table, arr, isDescending, idx + 1)

\* the binary search of BinaryInsertionSort, positions 0-based as in V8
RECURSIVE InsertionPoint(_, _, _, _, _)
InsertionPoint(table, arr, pivot, left, right) ==
    IF left < right
    THEN LET mid == left + ((right - left) \div 2)
             order == table[pivot][At(arr, mid)]
         IN  IF order.threw THEN [threw |-> TRUE, pos |-> 0]
             ELSE IF order.value < 0 THEN InsertionPoint(table, arr, pivot, left, mid)
             ELSE InsertionPoint(table, arr, pivot, mid + 1, right)
    ELSE [threw |-> FALSE, pos |-> left]

\* BinaryInsertionSort: arr[0..start-1] is sorted, the elements from start on are inserted
RECURSIVE BinaryInsertionSort(_, _, _)
BinaryInsertionSort(table, arr, start) ==
    IF start >= Len(arr) THEN [threw |-> FALSE, arr |-> arr]
    ELSE LET pivot == At(arr, start)
             at == InsertionPoint(table, arr, pivot, 0, start)
             moved == SubSeq(arr, 1, at.pos) \o <<pivot>> \o SubSeq(arr, at.pos + 1, start)
                         \o SubSeq(arr, start + 2, Len(arr))
         IN  IF at.threw THEN [threw |-> TRUE, arr |-> arr]
             ELSE BinaryInsertionSort(table, moved, start + 1)

\* the sorted order of the elements 1..n: [threw, arr]
ArraySort(table, n) ==
    LET arr == [i \in 1..n |-> i]
        first == table[arr[2]][arr[1]]
        run == RunLength(table, arr, first.value < 0, 3)
        made == IF first.value < 0
                THEN Reverse(SubSeq(arr, 1, run.len)) \o SubSeq(arr, run.len + 1, n)
                ELSE arr
    IN  IF n < 2 THEN [threw |-> FALSE, arr |-> arr]
        ELSE IF first.threw \/ run.threw THEN [threw |-> TRUE, arr |-> arr]
        ELSE BinaryInsertionSort(table, made, run.len)

-----------------------------------------------------------------------------
(* The vault: a snapshot of the file tree, by path *)

p_ == <<"p">>
p_a == <<"p", "/", "a">>
p_a_x == <<"p", "/", "a", "/", "x", ".", "m", "d">>
p_a_d == <<"p", "/", "a", "/", "d">>
p_a_d_x == <<"p", "/", "a", "/", "d", "/", "x", ".", "m", "d">>
p_b == <<"p", "/", "b">>
p_b_x == <<"p", "/", "b", "/", "x", ".", "m", "d">>
p_x == <<"p", "/", "x">>
p_a_md == <<"p", "/", "a", ".", "m", "d">>
p_A_md == <<"p", "/", "A", ".", "m", "d">>
p_d_md == <<"p", "/", "d", ".", "m", "d">>

\* a second tree: folders q/a and q/b, each with the files a.md and b.md
q_a == <<"q", "/", "a">>
q_a_a_md == <<"q", "/", "a", "/", "a", ".", "m", "d">>
q_a_b_md == <<"q", "/", "a", "/", "b", ".", "m", "d">>
q_b == <<"q", "/", "b">>
q_b_a_md == <<"q", "/", "b", "/", "a", ".", "m", "d">>
q_b_b_md == <<"q", "/", "b", "/", "b", ".", "m", "d">>

Vault ==
    (p_ :> TFolder(p_, <<"p">>, <<p_a, p_b, p_x, p_a_md, p_A_md, p_d_md>>))
    @@ (p_a :> TFolder(p_a, <<"a">>, <<p_a_x, p_a_d>>))
    @@ (p_a_x :> TFile(p_a_x, <<"x", ".", "m", "d">>, <<"x">>, 2, 3))
    @@ (p_a_d :> TFolder(p_a_d, <<"d">>, <<p_a_d_x>>))
    @@ (p_a_d_x :> TFile(p_a_d_x, <<"x", ".", "m", "d">>, <<"x">>, 1, 5))
    @@ (p_b :> TFolder(p_b, <<"b">>, <<p_b_x>>))
    @@ (p_b_x :> TFile(p_b_x, <<"x", ".", "m", "d">>, <<"x">>, 4, 1))
    @@ (p_x :> TFolder(p_x, <<"x">>, <<>>))
    @@ (p_a_md :> TFile(p_a_md, <<"a", ".", "m", "d">>, <<"a">>, 3, 2))
    @@ (p_A_md :> TFile(p_A_md, <<"A", ".", "m", "d">>, <<"A">>, 3, 2))
    @@ (p_d_md :> TFile(p_d_md, <<"d", ".", "m", "d">>, <<"d">>, 5, 4))
    @@ (q_a :> TFolder(q_a, <<"a">>, <<q_a_a_md, q_a_b_md>>))
    @@ (q_a_a_md :> TFile(q_a_a_md, <<"a", ".", "m", "d">>, <<"a">>, 1, 1))
    @@ (q_a_b_md :> TFile(q_a_b_md, <<"b", ".", "m", "d">>, <<"b">>, 2, 2))
    @@ (q_b :> TFolder(q_b, <<"b">>, <<q_b_a_md, q_b_b_md>>))
    @@ (q_b_a_md :> TFile(q_b_a_md, <<"a", ".", "m", "d">>, <<"a">>, 1, 1))
    @@ (q_b_b_md :> TFile(q_b_b_md, <<"b", ".", "m", "d">>, <<"b">>, 2, 2))

\* folder.children, as entries: a folder of the vault names its children by path,
\* a folder built by TFolderOf carries them
childrenOf(folder) ==
    IF "childEntries" \in DOMAIN folder THEN folder.childEntries
    ELSE [i \in 1..Len(folder.children) |-> Vault[folder.children[i]]]

\* a TFolder given by its child entries
TFolderOf(path, name, entries) ==
    [childEntries |-> entries] @@ TFolder(path, name, [i \in 1..Len(entries) |-> entries[i].path])

-----------------------------------------------------------------------------
(* Folder date aggregation *)

\* checkFile, on the pair [mtime, ctime] accumulated so far
checkFile(acc, abFile) ==
    IF isFolder(abFile) THEN acc
    ELSE [mtime |-> IF abFile.stat.mtime > acc.mtime THEN abFile.stat.mtime ELSE acc.mtime,
          ctime |-> IF abFile.stat.ctime < acc.ctime \/ acc.ctime = DEFAULT_FOLDER_CTIME
                    THEN abFile.stat.ctime ELSE acc.ctime]

\* folder.children.forEach(checkFile)
RECURSIVE ForEachCheckFile(_, _)
ForEachCheckFile(acc, files) ==
    IF files = <<>> THEN acc ELSE ForEachCheckFile(checkFile(acc, Head(files)), Tail(files))

\* recurseChildren(root, cb): the last item of the work list is popped and
\* visited, the children of a folder are appended to the list
RECURSIVE recurseChildren(_, _)
recurseChildren(acc, itemsToIterate) ==
    IF itemsToIterate = <<>> THEN acc
    ELSE LET firstItem == itemsToIterate[Len(itemsToIterate)]
             rest == SubSeq(itemsToIterate, 1, Len(itemsToIterate) - 1)
         IN  recurseChildren(checkFile(acc, firstItem),
                             IF isFolder(firstItem) THEN rest \o childrenOf(firstItem) ELSE rest)

\* [mtimeOfFolder, ctimeOfFolder]
determineDatesForFolder(folder, recursive) ==
    LET start == [mtime |-> DEFAULT_FOLDER_MTIME, ctime |-> DEFAULT_FOLDER_CTIME]
    IN  IF recursive THEN recurseChildren(start, <<folder>>)
        ELSE ForEachCheckFile(start, childrenOf(folder))

SortOrderRequiringRecursiveFolderDate ==
    {"byModifiedTimeAdvancedRecursive", "byModifiedTimeReverseAdvancedRecursive",
     "byCreatedTimeAdvancedRecursive", "byCreatedTimeReverseAdvancedRecursive"}

SortOrderRequiringFolderDate ==
    SortOrderRequiringRecursiveFolderDate \cup
    {"byModifiedTimeAdvanced", "byModifiedTimeReverseAdvanced",
     "byCreatedTimeAdvanced", "byCreatedTimeReverseAdvanced"}

SortOrderRequiringBookmarksOrder == {"byBookmarkOrder", "byBookmarkOrderReverse"}

\* orders.some((o) => o && set.has(o)), for the two orders every caller passes
sortOrderNeedsFolderDeepDates(o1, o2) ==
    \/ (Defined(o1) /\ Val(o1) \in SortOrderRequiringRecursiveFolderDate)
    \/ (Defined(o2) /\ Val(o2) \in SortOrderRequiringRecursiveFolderDate)

sortOrderNeedsFolderDates(o1, o2) ==
    \/ (Defined(o1) /\ Val(o1) \in SortOrderRequiringFolderDate)
    \/ (Defined(o2) /\ Val(o2) \in SortOrderRequiringFolderDate)

sortOrderNeedsBookmarksOrder(o1, o2) ==
    \/ (Defined(o1) /\ Val(o1) \in SortOrderRequiringBookmarksOrder)
    \/ (Defined(o2) /\ Val(o2) \in SortOrderRequiringBookmarksOrder)

\* the forEach callback of determineFolderDatesIfNeeded for one item: the item with
\* its dates set, or a throw when groupOrders[item.groupIdx] is read past the end
FolderDatesOfItem(item, sortingSpec) ==
    LET foldersDatesNeeded == sortOrderNeedsFolderDates(OrderOf(sortingSpec.defaultSorting),
                                                        OrderOf(sortingSpec.defaultSecondarySorting))
        foldersDeepDatesNeeded == sortOrderNeedsFolderDeepDates(OrderOf(sortingSpec.defaultSorting),
                                                                OrderOf(sortingSpec.defaultSecondarySorting))
        group == GroupAt(sortingSpec.groups, Val(item.groupIdx))
        groupDatesNeeded == sortOrderNeedsFolderDates(OrderOf(Val(group).sorting),
                                                      OrderOf(Val(group).secondarySorting))
        groupDeepDatesNeeded == sortOrderNeedsFolderDeepDates(OrderOf(Val(group).sorting),
                                                              OrderOf(Val(group).secondarySorting))
        \* reading groupOrders[item.groupIdx].x: is groupOrders[item.groupIdx] undefined?
        readsPastEnd(shortCircuit) == ~shortCircuit /\ Defined(item.groupIdx) /\ ~Defined(group)
        needed == foldersDatesNeeded \/ (Defined(item.groupIdx) /\ groupDatesNeeded)
        deep == foldersDeepDatesNeeded \/ (Defined(item.groupIdx) /\ groupDeepDatesNeeded)
        dates == determineDatesForFolder(Val(item.folder), deep)
    IN  IF ~Defined(item.folder) THEN [threw |-> FALSE, item |-> item]
        ELSE IF readsPastEnd(foldersDatesNeeded) THEN [threw |-> TRUE, item |-> item]
        ELSE IF ~needed THEN [threw |-> FALSE, item |-> item]
        ELSE IF readsPastEnd(foldersDeepDatesNeeded) THEN [threw |-> TRUE, item |-> item]
        ELSE [threw |-> FALSE,
              item |-> [item EXCEPT !.mtime = dates.mtime, !.ctime = dates.ctime]]

determineFolderDatesIfNeeded(folderItems, sortingSpec) ==
    LET each == [i \in 1..Len(folderItems) |-> FolderDatesOfItem(folderItems[i], sortingSpec)]
    IN  [threw |-> \E i \in 1..Len(folderItems) : each[i].threw,
         items |-> [i \in 1..Len(folderItems) |-> each[i].item]]

-----------------------------------------------------------------------------
(* Bookmark order resolution *)

\* the callback that looks at the folder's default orderings only
BookmarkOrderOfItem_FolderDefaultOnly(item, sortingSpec, plugin) ==
    IF /\ Defined(sortingSpec.defaultSorting)
       /\ sortOrderNeedsBookmarksOrder(OrderOf(sortingSpec.defaultSorting),
                                       OrderOf(sortingSpec.defaultSecondarySorting))
    THEN [threw |-> FALSE,
          item |-> [item EXCEPT !.bookmarkedIdx = determineBookmarkOrder(plugin, item.path)]]
    ELSE [threw |-> FALSE, item |-> item]

BookmarkOrderOfItem(item, sortingSpec, plugin) ==
    LET folderDefaultSortRequiresBookmarksOrder ==
            /\ Defined(sortingSpec.defaultSorting)
            /\ sortOrderNeedsBookmarksOrder(OrderOf(sortingSpec.defaultSorting),
                                            OrderOf(sortingSpec.defaultSecondarySorting))
        group == GroupAt(sortingSpec.groups, Val(item.groupIdx))
        groupSortRequiresBookmarksOrder ==
            /\ ~folderDefaultSortRequiresBookmarksOrder
            /\ Defined(item.groupIdx)
            /\ sortOrderNeedsBookmarksOrder(OrderOf(Val(group).sorting),
                                            OrderOf(Val(group).secondarySorting))
    IN  IF ~folderDefaultSortRequiresBookmarksOrder /\ Defined(item.groupIdx) /\ ~Defined(group)
        THEN [threw |-> TRUE, item |-> item]
        ELSE IF folderDefaultSortRequiresBookmarksOrder \/ groupSortRequiresBookmarksOrder
        THEN [threw |-> FALSE,
              item |-> [item EXCEPT !.bookmarkedIdx = determineBookmarkOrder(plugin, item.path)]]
        ELSE [threw |-> FALSE, item |-> item]

\* plugin is the optional ctx.bookmarksPluginInstance
determineBookmarksOrderIfNeeded(folderItems, sortingSpec, plugin) ==
    LET each == [i \in 1..Len(folderItems) |->
                     BookmarkOrderOfItem(folderItems[i], sortingSpec, Val(plugin))]
    IN  IF ~Defined(plugin) THEN [threw |-> FALSE, items |-> folderItems]
        ELSE [threw |-> \E i \in 1..Len(folderItems) : each[i].threw,
              items |-> [i \in 1..Len(folderItems) |-> each[i].item]]

-----------------------------------------------------------------------------
(* The sort pass *)

\* expandMacrosInString: every occurrence of the parent-folder-name macro is
\* replaced by the name of the sorted folder
RECURSIVE expandMacrosInString(_, _)
expandMacrosInString(text, parentFolderName) ==
    IF text = <<>> THEN <<>>
    ELSE (IF Head(text) = MACRO_TOKEN THEN parentFolderName ELSE <<Head(text)>>)
            \o expandMacrosInString(Tail(text), parentFolderName)

ExpandOptional(text, parentFolderName) ==
    IF TruthyStr(text) THEN Some(expandMacrosInString(Val(text), parentFolderName)) ELSE text

\* expandMacros(sortingSpec, parentFolderName): rewrites the texts of groupsShadow
expandMacros(sortingSpec, parentFolderName) ==
    IF Defined(sortingSpec.groupsShadow) /\ parentFolderName # <<>>
    THEN LET shadow == Val(sortingSpec.groupsShadow)
         IN  [sortingSpec EXCEPT !.groupsShadow =
                 Some([i \in 1..Len(shadow) |->
                         [shadow[i] EXCEPT
                             !.exactText = ExpandOptional(@, parentFolderName),
                             !.exactPrefix = ExpandOptional(@, parentFolderName),
                             !.exactSuffix = ExpandOptional(@, parentFolderName)]])]
    ELSE sortingSpec

\* the preparation that keeps a shadow copy the specification already carries
PrepareShadow_KeepExisting(sortingSpec, folder) ==
    IF Defined(sortingSpec.groupsShadow) THEN expandMacros(sortingSpec, folder.name)
    ELSE expandMacros([sortingSpec EXCEPT !.groupsShadow = Some(sortingSpec.groups)], folder.name)

\* sortingSpec.groupsShadow = sortingSpec.groups?.map(...); expandMacros(sortingSpec, folder.name)
PrepareShadow(sortingSpec, folder) ==
    expandMacros([sortingSpec EXCEPT !.groupsShadow = Some(sortingSpec.groups)], folder.name)

\* itemsToHide?.has(name) ?? false
HasName(names, name) == Defined(names) /\ name \in Val(names)

\* the filter with the ignore set left out
IsShown_HideSetOnly(entry, sortingSpec) == ~HasName(sortingSpec.itemsToHide, entry.name)

\* the filter of folderSortCore: hidden and ignored entries are skipped
IsShown(entry, sortingSpec) ==
    LET hide == HasName(sortingSpec.itemsToHide, entry.name)
        ignore == HasName(sortingSpec.itemsToIgnore, entry.name)
    IN  ~hide /\ ~ignore

\* the comparison table for Array.prototype.sort with the pass's comparator
ComparatorTable(folderItems, sortingSpec, sortOrder) ==
    [i \in 1..Len(folderItems) |-> [j \in 1..Len(folderItems) |->
        Returned(compareTwoItems(sortingSpec, Some(sortOrder), folderItems[i], folderItems[j]))]]

\* a pass that stopped with a fault before anything was returned
Faulted == [threw |-> TRUE, folderItems |-> <<>>, sorted |-> <<>>]

\* folderItems.sort(comparator): sorted is folderItems in the order the sort leaves
SortedBy(folderItems, sorted) ==
    IF sorted.threw THEN Faulted
    ELSE [threw |-> FALSE, folderItems |-> folderItems,
          sorted |-> [i \in 1..Len(folderItems) |-> folderItems[sorted.arr[i]]]]

\* the pass after the bookmark order step
AfterBookmarks(marked, sortingSpec, sortOrder) ==
    IF marked.threw THEN Faulted
    ELSE SortedBy(marked.items,
                  ArraySort(ComparatorTable(marked.items, sortingSpec, sortOrder), Len(marked.items)))

\* the pass after the folder dates step
AfterDates(dated, sortingSpec, context, sortOrder) ==
    IF dated.threw THEN Faulted
    ELSE AfterBookmarks(determineBookmarksOrderIfNeeded(dated.items, sortingSpec,
                                                        context.bookmarksPluginInstance),
                        sortingSpec, sortOrder)

\* the common tail of both entry points: dates, bookmark order, comparator, sort.
\* [threw, folderItems (as compared), sorted (folderItems in sorted order)]
SortClassified(classified, sortingSpec, context, sortOrder) ==
    AfterDates(determineFolderDatesIfNeeded(classified, sortingSpec), sortingSpec, context, sortOrder)

\* entries.map((entry) => determineSortingGroup(entry, sortingSpec, ctx))
ClassifyAll(entries, sortingSpec, context) ==
    [i \in 1..Len(entries) |-> determineSortingGroup(entries[i], sortingSpec, context)]

\* the host's collection of file items, by path
allFileItemsCollectionOf(path) == [file |-> Vault[path]]

\* sortedFolder.children.filter(...)
ShownChildren(sortedFolder, sortingSpec) ==
    SelectSeq(childrenOf(sortedFolder), LAMBDA entry : IsShown(entry, sortingSpec))

\* what folderSortCore leaves and returns: [sortingSpec, threw, folderItems, items]
CoreResult(prepared, pass) ==
    [sortingSpec |-> prepared, threw |-> pass.threw, folderItems |-> pass.folderItems,
     items |-> [i \in 1..Len(pass.sorted) |-> allFileItemsCollectionOf(pass.sorted[i].path)]]

\* folderSortCore after groupsShadow is set and the macros are expanded
CoreWithShadow(sortedFolder, sortOrder, prepared, context) ==
    CoreResult(prepared,
               SortClassified(ClassifyAll(ShownChildren(sortedFolder, prepared), prepared, context),
                              prepared, context, sortOrder))

folderSortCore(sortedFolder, sortOrder, sortingSpec, context) ==
    CoreWithShadow(sortedFolder, sortOrder, PrepareShadow(sortingSpec, sortedFolder), context)

\* the entry of items that folderItemsByPath holds for a path: the last one put there
folderItemsByPath(items, path) ==
    items[CHOOSE i \in 1..Len(items) :
              /\ items[i].path = path
              /\ \A j \in (i + 1)..Len(items) : items[j].path # path]

\* the comparison table of the host-default comparator on raw entries
PlainComparatorTable(items, sortOrder) ==
    [i \in 1..Len(items) |-> [j \in 1..Len(items) |->
        StandardPlainObsidianComparator(sortOrder, items[i], items[j])]]

\* what sortFolderItems leaves and returns with a specification:
\* [sortingSpec, input (the items array after the call), threw, folderItems, items]
CustomResult(items, prepared, pass) ==
    [sortingSpec |-> Some(prepared), input |-> items, threw |-> pass.threw,
     folderItems |-> pass.folderItems,
     items |-> [i \in 1..Len(pass.sorted) |-> folderItemsByPath(items, pass.sorted[i].path)]]

\* sortFolderItems after groupsShadow is set and the macros are expanded
CustomWithShadow(items, prepared, context, sortOrder) ==
    CustomResult(items, prepared,
                 SortClassified(ClassifyAll(items, prepared, context), prepared, context, sortOrder))

\* what sortFolderItems returns without a specification
PlainResult(items, sortingSpec, sorted) ==
    [sortingSpec |-> sortingSpec, input |-> items, threw |-> sorted.threw, folderItems |-> <<>>,
     items |-> IF sorted.threw THEN <<>> ELSE [i \in 1..Len(items) |-> items[sorted.arr[i]]]]

\* sortFolderItems; sortingSpec is Undefined (null) or Some(spec)
sortFolderItems(folder, items, sortingSpec, context, sortOrder) ==
    IF Defined(sortingSpec)
    THEN CustomWithShadow(items, PrepareShadow(Val(sortingSpec), folder), context, sortOrder)
    ELSE PlainResult(items, sortingSpec,
                     ArraySort(PlainComparatorTable(items, sortOrder), Len(items)))

-----------------------------------------------------------------------------
(* Inputs shared by the specifications *)

MaxNameLen == 3
MaxGroups == 2
MaxItems == 3

\* all sequences over S of length 1..n
RECURSIVE SeqsUpTo(_, _)
SeqsUpTo(S, n) ==
    IF n = 0 THEN {}
    ELSE LET shorter == SeqsUpTo(S, n - 1)
         IN  {<<x>> : x \in S} \cup shorter \cup {Append(t, x) : t \in shorter, x \in S}

NoContext == ProcessingContext(<<>>)

\* a context with every lookup collaborator present
FullContext ==
    ProcessingContext(
        [bookmarksPluginInstance |-> Some((p_a_md :> 2) @@ (p_b :> 1) @@ (p_x :> 0) @@ (p_a :> 3)),
         iconFolderPluginInstance |-> Some((p_A_md :> "star") @@ (p_b :> "")),
         _mCache |-> Some((p_a_md :> [frontmatter |-> Some(("f" :> <<"b">>) @@ ("sort-index-value" :> <<"2">>))])
                          @@ (p_A_md :> [frontmatter |-> Some("sort-index-value" :> <<"1">>)])
                          @@ (p_d_md :> [frontmatter |-> Undefined])
                          @@ ((p_a \o <<"/", "a", ".", "m", "d">>) :>
                                 [frontmatter |-> Some(("f" :> <<"a">>) @@ ("sort-index-value" :> <<"x">>))])
                          @@ ((p_b \o <<"/", "x", ".", "m", "d">>) :> [frontmatter |-> Some("f" :> <<"x">>)])),
         plugin |-> Some([indexNoteBasename |-> Some(<<"x">>)])])

Init0 ==
    /\ op = "init"
    /\ ret = Undefined

-----------------------------------------------------------------------------
(* Specification SpecHeadTail: ExactHeadAndTail groups against every short name *)

HeadTailNames == SeqsUpTo({"a", "b", "1"}, MaxNameLen)

PrefixSides ==
    {[exactPrefix |-> Some(<<"a">>), regexPrefix |-> Undefined],
     [exactPrefix |-> Some(<<"a", "b">>), regexPrefix |-> Undefined],
     [exactPrefix |-> Some(<<"a", "1">>), regexPrefix |-> Undefined],
     [exactPrefix |-> Undefined,
      regexPrefix |-> Some(RegExpSpec(Regex(TRUE, <<"a">>, "+", TRUE, <<>>, FALSE), Undefined))],
     [exactPrefix |-> Undefined,
      regexPrefix |-> Some(RegExpSpec(Regex(TRUE, <<"a">>, "*", FALSE, <<>>, FALSE), Undefined))]}

SuffixSides ==
    {[exactSuffix |-> Some(<<"b">>), regexSuffix |-> Undefined],
     [exactSuffix |-> Some(<<"a", "b">>), regexSuffix |-> Undefined],
     [exactSuffix |-> Some(<<"1", "b">>), regexSuffix |-> Undefined],
     [exactSuffix |-> Some(<<"a">>), regexSuffix |-> Undefined],
     [exactSuffix |-> Undefined,
      regexSuffix |-> Some(RegExpSpec(Regex(FALSE, <<>>, "+", TRUE, <<"b">>, TRUE), Undefined))],
     [exactSuffix |-> Undefined,
      regexSuffix |-> Some(RegExpSpec(Regex(FALSE, <<>>, "*", FALSE, <<"b">>, TRUE), Undefined))]}

HeadTailGroups ==
    {CustomSortGroup("ExactHeadAndTail", ps @@ ss) : ps \in PrefixSides, ss \in SuffixSides}

InitHeadTail ==
    /\ Init0
    /\ \E g \in HeadTailGroups : curSpec = CustomSortSpec([groups |-> <<g>>])
    /\ curCtx = NoContext
    /\ curSortOrder = OS_alphabetical
    /\ \E n \in HeadTailNames :
          args = [entry |-> TFile(<<"p", "/">> \o n \o <<".", "m", "d">>, n \o <<".", "m", "d">>, n, 1, 1)]

\* determineSortingGroup(entry, spec, ctx) is called for the drawn entry
Classify ==
    /\ op = "init"
    /\ op' = "determineSortingGroup"
    /\ ret' = determineSortingGroup(args.entry, curSpec, curCtx)
    /\ UNCHANGED <<curSpec, curCtx, curSortOrder, args>>

NextHeadTail == Classify

SpecHeadTail == InitHeadTail /\ [][NextHeadTail]_vars

\* the drawn group, the drawn name and whether the entry was put in the group
HeadTailGroup == At(curSpec.groups, 0)
HeadTailName == args.entry.basename
HeadTailMatched == ret.groupIdx = Some(0)

\* the length of the regexp's full match on the name, when it matches
FullMatchLen(theRegex, name) == Len(Val(matchGroupRegex(theRegex, name).full))

\* the condition the claim gives for a group with a literal on both sides
LiteralsFit(group, name) ==
    /\ startsWith(name, Val(group.exactPrefix))
    /\ endsWith(name, Val(group.exactSuffix))
    /\ Len(name) >= Len(Val(group.exactPrefix)) + Len(Val(group.exactSuffix))

\* the condition the claim gives for a literal prefix and a regexp suffix
PrefixAndRegexFit(group, name) ==
    /\ startsWith(name, Val(group.exactPrefix))
    /\ matchGroupRegex(Val(group.regexSuffix), name).matched
    /\ Len(Val(group.exactPrefix)) + FullMatchLen(Val(group.regexSuffix), name) <= Len(name)

\* the condition the claim gives for a regexp prefix and a literal suffix
RegexAndSuffixFit(group, name) ==
    /\ endsWith(name, Val(group.exactSuffix))
    /\ matchGroupRegex(Val(group.regexPrefix), name).matched
    /\ FullMatchLen(Val(group.regexPrefix), name) + Len(Val(group.exactSuffix)) <= Len(name)

\* the condition the claim gives for a regexp on both sides
TwoRegexFit(group, name) ==
    /\ matchGroupRegex(Val(group.regexPrefix), name).matched
    /\ matchGroupRegex(Val(group.regexSuffix), name).matched
    /\ FullMatchLen(Val(group.regexPrefix), name) + FullMatchLen(Val(group.regexSuffix), name)
           <= Len(name)

\* C10: an ExactHeadAndTail group matches a name exactly when the prefix side and
\* the suffix side hold on spans that do not overlap: with two literals P and S
\* iff the name starts with P, ends with S and is at least |P| + |S| long; with a
\* regexp on one or both sides iff both sides hold and the literal lengths plus
\* the lengths of the regexps' full matches do not exceed the length of the name.
C10_HeadAndTailSpansDoNotOverlap ==
    op = "determineSortingGroup" =>
        HeadTailMatched <=>
            CASE Defined(HeadTailGroup.exactPrefix) /\ Defined(HeadTailGroup.exactSuffix) ->
                     LiteralsFit(HeadTailGroup, HeadTailName)
              [] Defined(HeadTailGroup.exactPrefix) /\ ~Defined(HeadTailGroup.exactSuffix) ->
                     PrefixAndRegexFit(HeadTailGroup, HeadTailName)
              [] ~Defined(HeadTailGroup.exactPrefix) /\ Defined(HeadTailGroup.exactSuffix) ->
                     RegexAndSuffixFit(HeadTailGroup, HeadTailName)
              [] OTHER -> TwoRegexFit(HeadTailGroup, HeadTailName)

\* a name that starts with the literal prefix and ends with the literal suffix but
\* is shorter than the two together was tested and not put in the group
C10_Witness ==
    /\ op = "determineSortingGroup"
    /\ Defined(HeadTailGroup.exactPrefix) /\ Defined(HeadTailGroup.exactSuffix)
    /\ startsWith(HeadTailName, Val(HeadTailGroup.exactPrefix))
    /\ endsWith(HeadTailName, Val(HeadTailGroup.exactSuffix))
    /\ Len(HeadTailName) < Len(Val(HeadTailGroup.exactPrefix)) + Len(Val(HeadTailGroup.exactSuffix))
    /\ ret.groupIdx = Some(1)

-----------------------------------------------------------------------------
(* Specification SpecClassify: determineSortingGroup on the children of the  *)
(* vault's folder p, against specifications of up to MaxGroups groups with   *)
(* merge redirects, priority orders and outsiders buckets                    *)

ClassifyGroupPool ==
    {CustomSortGroup("ExactName", [exactText |-> Some(<<"a">>)]),
     CustomSortGroup("ExactPrefix", [exactPrefix |-> Some(<<"a">>), foldersOnly |-> TRUE]),
     CustomSortGroup("MatchAll", [filesOnly |-> TRUE]),
     CustomSortGroup("HasMetadataField", [withMetadataFieldName |-> Some("f")]),
     CustomSortGroup("BookmarkedOnly", <<>>),
     CustomSortGroup("Outsiders", <<>>)}

\* the group lists with at most one merge redirect, from a later group to group 0
WithCombine(groups) ==
    {groups} \cup
    {[groups EXCEPT ![i] = [@ EXCEPT !.combineWithIdx = Some(0)]] : i \in 2..Len(groups)}

ClassifyGroupLists == UNION {WithCombine(gs) : gs \in SeqsUpTo(ClassifyGroupPool, MaxGroups)}

\* no priority order, all groups in reverse order, the last group only
PriorityOrders(n) == {Undefined, Some([i \in 1..n |-> n - i]), Some(<<n - 1>>)}

ClassifySpecs ==
    {CustomSortSpec([groups |-> gs, priorityOrder |-> po, outsidersFilesGroupIdx |-> oFiles,
                     outsidersFoldersGroupIdx |-> oFolders, outsidersGroupIdx |-> oAll]) :
        gs \in ClassifyGroupLists, po \in UNION {PriorityOrders(Len(g)) : g \in ClassifyGroupLists},
        oFiles \in {Undefined} \cup {Some(n - 1) : n \in 1..MaxGroups},
        oFolders \in {Undefined} \cup {Some(n - 1) : n \in 1..MaxGroups},
        oAll \in {Undefined, Some(0)}}

\* the indices a specification uses are indices of its groups
ValidSpec(spec) ==
    /\ spec.priorityOrder \in PriorityOrders(Len(spec.groups))
    /\ \A o \in {spec.outsidersFilesGroupIdx, spec.outsidersFoldersGroupIdx} :
          Defined(o) => Val(o) = Len(spec.groups) - 1

InitClassify ==
    /\ Init0
    /\ curSortOrder = OS_alphabetical
    /\ \E spec \in ClassifySpecs, direct \in BOOLEAN :
          /\ ValidSpec(spec)
          /\ curSpec = IF direct THEN spec ELSE [spec EXCEPT !.groupsShadow = Some(spec.groups)]
          /\ curCtx = IF direct THEN NoContext ELSE FullContext
    /\ \E i \in 1..Len(Vault[p_].children) : args = [entry |-> Vault[Vault[p_].children[i]]]

NextClassify == Classify

SpecClassify == InitClassify /\ [][NextClassify]_vars

\* the order in which the groups are tested
EvaluationOrder(spec) ==
    IF Defined(spec.priorityOrder) THEN Val(spec.priorityOrder)
    ELSE [i \in 1..Len(spec.groups) |-> i - 1]

\* the group with index groupIdx may take the entry and its predicate holds for it
GroupMatches(entry, spec, context, groupIdx) ==
    /\ GroupToTest(spec, groupIdx).foldersOnly => isFolder(entry)
    /\ GroupToTest(spec, groupIdx).filesOnly => ~isFolder(entry)
    /\ GroupSwitch(GroupToTest(spec, groupIdx), entry, context,
                   IF GroupToTest(spec, groupIdx).matchFilenameWithExt
                   THEN entry.name ELSE basenameOf(entry),
                   LoopLocals).determined

\* the positions of the evaluation order whose group matches the drawn entry
MatchingPositions ==
    {k \in 1..Len(EvaluationOrder(curSpec)) :
        GroupMatches(args.entry, curSpec, curCtx, EvaluationOrder(curSpec)[k])}

FirstMatchingGroupIdx ==
    EvaluationOrder(curSpec)[CHOOSE k \in MatchingPositions : \A j \in MatchingPositions : k <= j]

\* C2: determineSortingGroup returns a defined groupIdx in 0..groups.length: the
\* index of a group of the specification or the past-the-end sentinel.
C2_GroupIdxIsTotal ==
    op = "determineSortingGroup" =>
        /\ Defined(ret.groupIdx)
        /\ Val(ret.groupIdx) \in 0..Len(curSpec.groups)

\* a folder that no group matches and no outsiders bucket takes got the sentinel
C2_Witness ==
    /\ op = "determineSortingGroup"
    /\ isFolder(args.entry)
    /\ MatchingPositions = {}
    /\ ~Defined(curSpec.outsidersFoldersGroupIdx) /\ ~Defined(curSpec.outsidersGroupIdx)
    /\ ret.groupIdx = Some(Len(curSpec.groups))

\* C3: the groups are tested in evaluation order and the first group that may
\* take the entry (not folders-only for a file, not files-only for a folder) and
\* whose predicate matches wins: the group index is that group's index, or its
\* combineWithIdx target when it declares one, whatever matches later in the order.
C3_FirstMatchWins ==
    (op = "determineSortingGroup" /\ MatchingPositions # {}) =>
        ret.groupIdx = IF Defined(At(curSpec.groups, FirstMatchingGroupIdx).combineWithIdx)
                       THEN At(curSpec.groups, FirstMatchingGroupIdx).combineWithIdx
                       ELSE Some(FirstMatchingGroupIdx)

\* under a priority order that tests group 1 before group 0 both groups match a
\* folder, and the result is the merge target of group 1, the first that matches
C3_Witness ==
    /\ op = "determineSortingGroup"
    /\ Defined(curSpec.priorityOrder)
    /\ Len(curSpec.groups) >= 2
    /\ isFolder(args.entry)
    /\ Cardinality(MatchingPositions) = 2
    /\ FirstMatchingGroupIdx = 1
    /\ At(curSpec.groups, 1).combineWithIdx = Some(0)
    /\ GroupMatches(args.entry, curSpec, curCtx, 0)
    /\ ret.groupIdx = Some(0)

\* C9: when no group matches, the group index is outsidersFilesGroupIdx for a file
\* if configured, else outsidersFoldersGroupIdx for a folder if configured, else
\* outsidersGroupIdx if configured, else the sentinel groups.length.
C9_OutsidersPriority ==
    (op = "determineSortingGroup" /\ MatchingPositions = {}) =>
        ret.groupIdx =
            IF ~isFolder(args.entry) /\ Defined(curSpec.outsidersFilesGroupIdx)
            THEN curSpec.outsidersFilesGroupIdx
            ELSE IF isFolder(args.entry) /\ Defined(curSpec.outsidersFoldersGroupIdx)
            THEN curSpec.outsidersFoldersGroupIdx
            ELSE IF Defined(curSpec.outsidersGroupIdx) THEN curSpec.outsidersGroupIdx
            ELSE Some(Len(curSpec.groups))

\* an unmatched file went to the files bucket although a different general bucket
\* is configured too
C9_Witness ==
    /\ op = "determineSortingGroup"
    /\ MatchingPositions = {}
    /\ ~isFolder(args.entry)
    /\ Defined(curSpec.outsidersFilesGroupIdx) /\ Defined(curSpec.outsidersGroupIdx)
    /\ curSpec.outsidersFilesGroupIdx # curSpec.outsidersGroupIdx
    /\ ret.groupIdx = curSpec.outsidersFilesGroupIdx

\* the Bookmark Order Lookup is present and has a non-zero rank for the entry
HasBookmarkRank(entry, context) ==
    /\ Defined(context.bookmarksPluginInstance)
    /\ TruthyNum(determineBookmarkOrder(Val(context.bookmarksPluginInstance), entry.path))

\* the positions of the evaluation order that hold a BookmarkedOnly group
BookmarkedOnlyPositions ==
    {k \in 1..Len(EvaluationOrder(curSpec)) :
        GroupToTest(curSpec, EvaluationOrder(curSpec)[k]).type = "BookmarkedOnly"}

\* C12: a BookmarkedOnly group matches the entry if and only if the Bookmark Order
\* Lookup has a non-zero rank for its path, whatever the icon lookup holds; when
\* such a group wins, the rank is the entry's bookmarkedIdx.
C12_BookmarkedOnlyIffRanked ==
    op = "determineSortingGroup" =>
        /\ \A k \in BookmarkedOnlyPositions :
              GroupMatches(args.entry, curSpec, curCtx, EvaluationOrder(curSpec)[k])
                  <=> HasBookmarkRank(args.entry, curCtx)
        /\ (MatchingPositions # {} /\ GroupToTest(curSpec, FirstMatchingGroupIdx).type = "BookmarkedOnly")
              => ret.bookmarkedIdx =
                    determineBookmarkOrder(Val(curCtx.bookmarksPluginInstance), args.entry.path)

-----------------------------------------------------------------------------
(* Specification SpecCompare: the comparator of getComparator on pairs of   *)
(* classified entries, for every ordering at the group's primary level and  *)
(* a choice of orderings at the other levels                                *)

\* a classified entry as the steps before the sort leave it
ClassifiedItem(name, aFolder, mtime, ctime, bookmarkedIdx, mdata, mdataSecondary) ==
    [groupIdx |-> Undefined,
     sortString |-> name,
     sortStringWithExt |-> IF aFolder THEN name ELSE name \o <<".", "m", "d">>,
     metadataFieldValue |-> mdata,
     metadataFieldValueSecondary |-> mdataSecondary,
     metadataFieldValueForDerived |-> mdata,
     metadataFieldValueForDerivedSecondary |-> mdataSecondary,
     isFolder |-> aFolder,
     folder |-> IF aFolder THEN Some(Vault[p_ \o <<"/">> \o name]) ELSE Undefined,
     path |-> IF aFolder THEN p_ \o <<"/">> \o name ELSE p_ \o <<"/">> \o name \o <<".", "m", "d">>,
     ctime |-> ctime,
     mtime |-> mtime,
     bookmarkedIdx |-> bookmarkedIdx]

CompareItems ==
    {ClassifiedItem(<<"a">>, FALSE, 2, 3, Some(2), Some(<<"b">>), Undefined),
     ClassifiedItem(<<"A">>, FALSE, 2, 3, Undefined, Undefined, Some(<<"a">>)),
     ClassifiedItem(<<"d">>, FALSE, 4, 5, Some(1), Some(<<"a">>), Some(<<"a">>)),
     ClassifiedItem(<<"a">>, TRUE, 3, 2, Undefined, Some(<<"b">>), Undefined),
     ClassifiedItem(<<"x">>, TRUE, 0, 0, Some(3), Undefined, Undefined),
     ClassifiedItem(<<"b">>, TRUE, 0, 0, Undefined, Undefined, Undefined)}

SecondaryOrders == {"alphabeticalReverse", "byMetadataFieldAlphabetical"}
FolderLevelOrders == {"byCreatedTimeAdvanced", "folderFirst", "standardObsidian"}
FolderLevelSecondaryOrders == {"byBookmarkOrder"}

OptionalSorting(orders) == {Undefined} \cup {Some(CustomSort(o)) : o \in orders}

\* MaxGroups groups; group 0 carries the drawn orderings, the others carry none
CompareSpecs ==
    {CustomSortSpec(
        [groups |-> [i \in 1..MaxGroups |->
                        IF i = 1
                        THEN CustomSortGroup("MatchAll", [sorting |-> s1, secondarySorting |-> s2])
                        ELSE CustomSortGroup("MatchAll", <<>>)],
         defaultSorting |-> s3, defaultSecondarySorting |-> s4]) :
        s1 \in OptionalSorting(CustomSortOrder), s2 \in OptionalSorting(SecondaryOrders),
        s3 \in OptionalSorting(FolderLevelOrders), s4 \in OptionalSorting(FolderLevelSecondaryOrders)}

InitCompare ==
    /\ Init0
    /\ curSpec \in CompareSpecs
    /\ curCtx = NoContext
    /\ curSortOrder = OS_byModifiedTime
    /\ \E a \in CompareItems, b \in CompareItems, ga \in 0..MaxGroups, gb \in 0..MaxGroups :
          args = [itA |-> [a EXCEPT !.groupIdx = Some(ga)], itB |-> [b EXCEPT !.groupIdx = Some(gb)]]

\* the comparator built by getComparator(curSpec, curSortOrder) is applied to the pair
Compare ==
    /\ op = "init"
    /\ op' = "compareTwoItems"
    /\ ret' = compareTwoItems(curSpec, Some(curSortOrder), args.itA, args.itB)
    /\ UNCHANGED <<curSpec, curCtx, curSortOrder, args>>

NextCompare == Compare

SpecCompare == InitCompare /\ [][NextCompare]_vars

\* C1: for two entries with different defined group indices the comparator is
\* negative exactly when the first entry's index is the smaller one, whatever
\* else the entries carry; the sentinel index groups.length comes after every
\* real group.
C1_DifferentGroupsOrderByGroupIdx ==
    (/\ op = "compareTwoItems"
     /\ Defined(args.itA.groupIdx) /\ Defined(args.itB.groupIdx)
     /\ args.itA.groupIdx # args.itB.groupIdx) =>
        /\ ret < 0 <=> Val(args.itA.groupIdx) < Val(args.itB.groupIdx)
        /\ ret > 0 <=> Val(args.itA.groupIdx) > Val(args.itB.groupIdx)

\* a file with the sentinel index came after a folder of group 0 although the
\* file's sort string collates first and the folder-level order is fileFirst-like
C1_Witness ==
    /\ op = "compareTwoItems"
    /\ args.itA.groupIdx = Some(Len(curSpec.groups))
    /\ args.itB.groupIdx = Some(0)
    /\ ~args.itA.isFolder /\ args.itB.isFolder
    /\ CollatorCompare(args.itA.sortString, args.itB.sortString) < 0
    /\ SameGroupCascade(curSpec, Some(curSortOrder), args.itA, args.itB) < 0
    /\ ret > 0

\* the five levels of the cascade for the compared pair, in the order of the claim
CascadeLevels ==
    <<LevelResult(SortingOf(GroupAt(curSpec.groups, Val(args.itA.groupIdx))),
                  Some(curSortOrder), "forPrimary", args.itA, args.itB),
      LevelResult(SecondarySortingOf(GroupAt(curSpec.groups, Val(args.itA.groupIdx))),
                  Some(curSortOrder), "forSecondary", args.itA, args.itB),
      LevelResult(curSpec.defaultSorting, Some(curSortOrder), "forDerivedPrimary",
                  args.itA, args.itB),
      LevelResult(curSpec.defaultSecondarySorting, Some(curSortOrder), "forDerivedSecondary",
                  args.itA, args.itB),
      Sorters("alphabeticalWithFilesPreferred", args.itA, args.itB)>>

\* C4: for two entries of the same group the comparator returns the result of the
\* first level that is not zero, in the order group primary, group secondary,
\* folder default primary, folder default secondary, alphabeticalWithFilesPreferred;
\* a level that is not configured counts as zero.
C4_FirstNonZeroLevelDecides ==
    (op = "compareTwoItems" /\ args.itA.groupIdx = args.itB.groupIdx) =>
        /\ \A k \in 1..5 :
              (CascadeLevels[k] # 0 /\ \A j \in 1..(k - 1) : CascadeLevels[j] = 0) =>
                  ret = CascadeLevels[k]
        /\ (\A k \in 1..5 : CascadeLevels[k] = 0) => ret = 0

\* the two group levels are configured and neutral, the folder's default primary
\* ordering decides, and the levels after it would have decided the other way
C4_Witness ==
    /\ op = "compareTwoItems"
    /\ args.itA.groupIdx = Some(0) /\ args.itB.groupIdx = Some(0)
    /\ Defined(At(curSpec.groups, 0).sorting) /\ Defined(At(curSpec.groups, 0).secondarySorting)
    /\ CascadeLevels[1] = 0 /\ CascadeLevels[2] = 0
    /\ CascadeLevels[3] < 0 /\ CascadeLevels[4] > 0 /\ CascadeLevels[5] > 0
    /\ ret = CascadeLevels[3]

AdvancedModifiedOrders ==
    {"byModifiedTimeAdvanced", "byModifiedTimeAdvancedRecursive",
     "byModifiedTimeReverseAdvanced", "byModifiedTimeReverseAdvancedRecursive"}
AdvancedCreatedOrders ==
    {"byCreatedTimeAdvanced", "byCreatedTimeAdvancedRecursive",
     "byCreatedTimeReverseAdvanced", "byCreatedTimeReverseAdvancedRecursive"}
BookmarkOrders == {"byBookmarkOrder", "byBookmarkOrderReverse"}
KeyedOrders == MetadataOrders \cup AdvancedModifiedOrders \cup AdvancedCreatedOrders \cup BookmarkOrders
DescendingKeyedOrders ==
    {"byMetadataFieldAlphabeticalReverse", "byMetadataFieldTrueAlphabeticalReverse",
     "byModifiedTimeReverseAdvanced", "byModifiedTimeReverseAdvancedRecursive",
     "byCreatedTimeReverseAdvanced", "byCreatedTimeReverseAdvancedRecursive", "byBookmarkOrderReverse"}

\* the entry has the key the order compares by, at the given comparison level
HasKey(order, it, sortLevelId) ==
    CASE order \in MetadataOrders -> getMdata(it, sortLevelId) # Undefined
      [] order \in AdvancedModifiedOrders -> it.mtime # 0
      [] order \in AdvancedCreatedOrders -> it.ctime # 0
      [] order \in BookmarkOrders -> TruthyNum(it.bookmarkedIdx)
      [] OTHER -> FALSE

\* the ordering configured at the primary and at the secondary level of the
\* compared pair's group, "" when the level is not configured
PrimaryOrder ==
    IF Defined(SortingOf(GroupAt(curSpec.groups, Val(args.itA.groupIdx))))
    THEN Val(SortingOf(GroupAt(curSpec.groups, Val(args.itA.groupIdx)))).order ELSE ""
SecondaryOrder ==
    IF Defined(SecondarySortingOf(GroupAt(curSpec.groups, Val(args.itA.groupIdx))))
    THEN Val(SecondarySortingOf(GroupAt(curSpec.groups, Val(args.itA.groupIdx)))).order ELSE ""

\* the pair is compared within one group
SameGroupCompared == op = "compareTwoItems" /\ args.itA.groupIdx = args.itB.groupIdx

\* C13: under a metadata, advanced date or bookmark order, ascending or
\* descending, the sorter of the level is negative when only the first entry has
\* the key and positive when only the second has it, and so is the comparator
\* when that level is the first to decide (primary level; secondary level after
\* a neutral primary level).
C13_KeyedEntryFirst ==
    SameGroupCompared =>
        /\ (PrimaryOrder \in KeyedOrders /\ HasKey(PrimaryOrder, args.itA, "forPrimary")
                /\ ~HasKey(PrimaryOrder, args.itB, "forPrimary")) =>
              (CascadeLevels[1] < 0 /\ ret < 0)
        /\ (PrimaryOrder \in KeyedOrders /\ ~HasKey(PrimaryOrder, args.itA, "forPrimary")
                /\ HasKey(PrimaryOrder, args.itB, "forPrimary")) =>
              (CascadeLevels[1] > 0 /\ ret > 0)
        /\ (CascadeLevels[1] = 0 /\ SecondaryOrder \in KeyedOrders
                /\ HasKey(SecondaryOrder, args.itA, "forSecondary")
                /\ ~HasKey(SecondaryOrder, args.itB, "forSecondary")) =>
              (CascadeLevels[2] < 0 /\ ret < 0)
        /\ (CascadeLevels[1] = 0 /\ SecondaryOrder \in KeyedOrders
                /\ ~HasKey(SecondaryOrder, args.itA, "forSecondary")
                /\ HasKey(SecondaryOrder, args.itB, "forSecondary")) =>
              (CascadeLevels[2] > 0 /\ ret > 0)

\* under the descending bookmark order a bookmarked file came before a folder
\* without a rank, although every later level would put the folder first
C13_Witness ==
    /\ SameGroupCompared
    /\ PrimaryOrder = "byBookmarkOrderReverse"
    /\ TruthyNum(args.itA.bookmarkedIdx) /\ ~TruthyNum(args.itB.bookmarkedIdx)
    /\ ~args.itA.isFolder /\ args.itB.isFolder
    /\ curSpec.defaultSorting = Some(CustomSort("folderFirst"))
    /\ ret < 0

\* neither entry of the pair has the discriminant of the order
NeitherHasDiscriminant(order, sortLevelId) ==
    IF order \in {"fileFirst", "folderFirst"} THEN args.itA.isFolder = args.itB.isFolder
    ELSE /\ order \in KeyedOrders
         /\ ~HasKey(order, args.itA, sortLevelId)
         /\ ~HasKey(order, args.itB, sortLevelId)

\* C14: a keyed sorter, fileFirst and folderFirst return 0 for a pair in which
\* neither entry has the discriminant (same kind for fileFirst / folderFirst),
\* and the comparator's result is then that of the levels after it.
C14_NeutralWithoutDiscriminant ==
    SameGroupCompared =>
        /\ NeitherHasDiscriminant(PrimaryOrder, "forPrimary") =>
              /\ CascadeLevels[1] = 0
              /\ \A k \in 2..5 :
                    (CascadeLevels[k] # 0 /\ \A j \in 2..(k - 1) : CascadeLevels[j] = 0) =>
                        ret = CascadeLevels[k]
              /\ (\A k \in 2..5 : CascadeLevels[k] = 0) => ret = 0
        /\ (CascadeLevels[1] = 0 /\ NeitherHasDiscriminant(SecondaryOrder, "forSecondary")) =>
              CascadeLevels[2] = 0

\* two different folders without aggregated dates under a created-date order:
\* the level is neutral and the last level decides by name
C14_Witness ==
    /\ SameGroupCompared
    /\ PrimaryOrder \in AdvancedCreatedOrders
    /\ args.itA.ctime = 0 /\ args.itB.ctime = 0
    /\ args.itA.path # args.itB.path
    /\ CascadeLevels[1] = 0 /\ CascadeLevels[2] = 0 /\ CascadeLevels[3] = 0 /\ CascadeLevels[4] = 0
    /\ ret = CascadeLevels[5] /\ ret # 0

\* the collation result of the two sort strings of the compared pair
SortStringCollation == CollatorCompare(args.itA.sortString, args.itB.sortString)

\* C16: under alphabeticalWithFilesPreferred and alphabeticalWithFoldersPreferred
\* the sorter returns the collation result of the sort strings when it is not 0;
\* for collation-equal sort strings it returns 0 for two entries of the same
\* kind, and for a file and a folder it puts the file first under the first order
\* and the folder first under the second.
C16_PreferredKindBreaksTheTie ==
    (SameGroupCompared
     /\ PrimaryOrder \in {"alphabeticalWithFilesPreferred", "alphabeticalWithFoldersPreferred"}) =>
        /\ SortStringCollation # 0 => CascadeLevels[1] = SortStringCollation
        /\ (SortStringCollation = 0 /\ args.itA.isFolder = args.itB.isFolder) => CascadeLevels[1] = 0
        /\ (SortStringCollation = 0 /\ args.itA.isFolder # args.itB.isFolder) =>
              /\ CascadeLevels[1] < 0 <=>
                    (args.itA.isFolder <=> PrimaryOrder = "alphabeticalWithFoldersPreferred")
              /\ CascadeLevels[1] # 0
              /\ ret = CascadeLevels[1]

-----------------------------------------------------------------------------
(* Specification SpecSort: sort passes over the vault's folder p.  A pass is *)
(* folderSortCore on the folder, or sortFolderItems on a list of up to       *)
(* MaxItems of its children, with the specification or without one; a list   *)
(* that sortFolderItems returned is then sorted once more.                   *)

\* all sequences of 1..n distinct elements of S
RECURSIVE DistinctSeqs(_, _)
DistinctSeqs(S, n) ==
    IF n = 0 THEN {}
    ELSE {<<x>> : x \in S} \cup DistinctSeqs(S, n - 1) \cup
         UNION {{Append(t, x) : x \in S \ SeqToSet(t)} : t \in DistinctSeqs(S, n - 1)}

ItemLists(folder) == DistinctSeqs(SeqToSet(childrenOf(folder)), MaxItems)

SortGroupLists ==
    {<<CustomSortGroup("MatchAll", <<>>)>>,
     <<CustomSortGroup("ExactName", [exactText |-> Some(<<"a">>)])>>,
     <<CustomSortGroup("ExactPrefix", [exactPrefix |-> Some(<<"a">>), foldersOnly |-> TRUE]),
       CustomSortGroup("Outsiders", <<>>)>>}

\* the orderings of the first group and of the folder
SortingConfigs ==
    {[sorting |-> Undefined, secondarySorting |-> Undefined,
      defaultSorting |-> Undefined, defaultSecondarySorting |-> Undefined],
     [sorting |-> Some(CustomSort("byModifiedTime")),
      secondarySorting |-> Some(CustomSort("byModifiedTimeAdvanced")),
      defaultSorting |-> Undefined, defaultSecondarySorting |-> Undefined],
     [sorting |-> Some([CustomSort("byMetadataFieldAlphabetical") EXCEPT !.byMetadata = Some("f")]),
      secondarySorting |-> Undefined,
      defaultSorting |-> Some(CustomSort("byCreatedTimeAdvancedRecursive")),
      defaultSecondarySorting |-> Undefined],
     [sorting |-> Some(CustomSort("byBookmarkOrder")), secondarySorting |-> Undefined,
      defaultSorting |-> Some(CustomSort("standardObsidian")),
      defaultSecondarySorting |-> Some(CustomSort("alphabeticalReverse"))],
     [sorting |-> Some([CustomSort("byMetadataFieldAlphabeticalReverse")
                            EXCEPT !.metadataValueExtractor = Some("leadingNumber")]),
      secondarySorting |-> Undefined,
      defaultSorting |-> Some(CustomSort("alphabetical")),
      defaultSecondarySorting |-> Some(CustomSort("byBookmarkOrderReverse"))],
     [sorting |-> Some(CustomSort("byModifiedTimeAdvanced")),
      secondarySorting |-> Some(CustomSort("byCreatedTimeReverseAdvancedRecursive")),
      defaultSorting |-> Undefined, defaultSecondarySorting |-> Undefined]}

HideConfigs ==
    {[itemsToHide |-> Undefined, itemsToIgnore |-> Undefined],
     [itemsToHide |-> Some({<<"a", ".", "m", "d">>}), itemsToIgnore |-> Some({<<"b">>})]}

SortSpecs ==
    {CustomSortSpec(
        [groups |-> [groups EXCEPT ![1] = [@ EXCEPT !.sorting = cfg.sorting,
                                                    !.secondarySorting = cfg.secondarySorting]],
         outsidersGroupIdx |-> IF Len(groups) = 2 THEN Some(1) ELSE Undefined,
         defaultSorting |-> cfg.defaultSorting,
         defaultSecondarySorting |-> cfg.defaultSecondarySorting,
         itemsToHide |-> hidden.itemsToHide, itemsToIgnore |-> hidden.itemsToIgnore]) :
        groups \in SortGroupLists, cfg \in SortingConfigs, hidden \in HideConfigs}

\* a host order name that is none of the six recognized ones
UnrecognizedOrder == "byName"

InitSort ==
    /\ Init0
    /\ curSpec \in SortSpecs
    /\ curCtx \in {NoContext, FullContext}
    /\ curSortOrder \in {OS_byModifiedTime, UnrecognizedOrder}
    /\ args = [folder |-> Vault[p_], items |-> <<>>, first |-> <<>>, custom |-> TRUE]

\* getSortedFolderItems: folderSortCore on the folder with the specification
SortFolder ==
    /\ op = "init"
    /\ op' = "folderSortCore"
    /\ ret' = folderSortCore(args.folder, curSortOrder, curSpec, curCtx)
    /\ curSpec' = ret'.sortingSpec
    /\ args' = [args EXCEPT !.items = childrenOf(args.folder), !.first = childrenOf(args.folder)]
    /\ UNCHANGED <<curCtx, curSortOrder>>

\* sortFolderItems on a list of children of the folder, with the specification
SortItems ==
    /\ op = "init"
    /\ op' = "sortFolderItems"
    /\ \E items \in ItemLists(args.folder) :
          /\ args' = [args EXCEPT !.items = items, !.first = items]
          /\ ret' = sortFolderItems(args.folder, items, Some(curSpec), curCtx, curSortOrder)
    /\ curSpec' = Val(ret'.sortingSpec)
    /\ UNCHANGED <<curCtx, curSortOrder>>

\* sortFolderItems on a list of children of the folder, with null for the specification
SortItemsPlain ==
    /\ op = "init"
    /\ op' = "sortFolderItems"
    /\ \E items \in ItemLists(args.folder) :
          /\ args' = [args EXCEPT !.items = items, !.first = items, !.custom = FALSE]
          /\ ret' = sortFolderItems(args.folder, items, Undefined, curCtx, curSortOrder)
    /\ UNCHANGED <<curSpec, curCtx, curSortOrder>>

\* sortFolderItems on the list the previous call returned, everything else the same
SortAgain ==
    /\ op = "sortFolderItems"
    /\ ~ret.threw
    /\ op' = "sortFolderItems again"
    /\ args' = [args EXCEPT !.items = ret.items]
    /\ ret' = sortFolderItems(args.folder, ret.items,
                              IF args.custom THEN Some(curSpec) ELSE Undefined,
                              curCtx, curSortOrder)
    /\ curSpec' = IF args.custom THEN Val(ret'.sortingSpec) ELSE curSpec
    /\ UNCHANGED <<curCtx, curSortOrder>>

NextSort == SortFolder \/ SortItems \/ SortItemsPlain \/ SortAgain

SpecSort == InitSort /\ [][NextSort]_vars

\* a pass with the specification returned
CustomPassReturned ==
    /\ op \in {"folderSortCore", "sortFolderItems", "sortFolderItems again"}
    /\ args.custom
    /\ ~ret.threw

\* the comparator of the pass on the i-th and j-th classified entry of the pass
PassCompare(i, j) ==
    compareTwoItems(curSpec, Some(curSortOrder), ret.folderItems[i], ret.folderItems[j])

\* C5: the comparator of a pass is consistent over the classified entries of the
\* pass: the sign of compare(a, b) is the opposite of the sign of compare(b, a),
\* and compare(a, b) < 0 and compare(b, c) < 0 imply compare(a, c) < 0.
C5_ComparatorIsConsistent ==
    CustomPassReturned =>
        /\ \A i, j \in 1..Len(ret.folderItems) : Sign(PassCompare(i, j)) = -Sign(PassCompare(j, i))
        /\ \A i, j, k \in 1..Len(ret.folderItems) :
              (PassCompare(i, j) < 0 /\ PassCompare(j, k) < 0) => PassCompare(i, k) < 0

\* C6: sortFolderItems applied to the list it returned, with the same
\* specification, collaborators and host order, returns the identical list.
C6_SortIsIdempotent ==
    op = "sortFolderItems again" => (~ret.threw /\ ret.items = args.items)

\* the first call reordered its input, two of the entries compare as equal, and
\* the second call returned the list as it was given
C6_Witness ==
    /\ op = "sortFolderItems again"
    /\ args.custom
    /\ ~ret.threw
    /\ args.first # args.items
    /\ \E i, j \in 1..Len(ret.folderItems) : i # j /\ PassCompare(i, j) = 0
    /\ ret.items = args.items

\* C7: sortFolderItems, with or without a specification, returns the entries it
\* was given, each exactly once and unmodified, and leaves the input array as it was.
C7_ReturnsTheSameEntries ==
    op \in {"sortFolderItems", "sortFolderItems again"} =>
        /\ ~ret.threw
        /\ Len(ret.items) = Len(args.items)
        /\ \A i \in 1..Len(args.items) :
              Cardinality({k \in 1..Len(ret.items) : ret.items[k] = args.items[i]}) = 1
        /\ ret.input = args.items

\* the entries of the result of a pass
ResultEntries ==
    IF op = "folderSortCore" THEN [i \in 1..Len(ret.items) |-> ret.items[i].file] ELSE ret.items

\* the entry's name is in the hide set or in the ignore set of the specification
HiddenOrIgnored(entry) ==
    HasName(curSpec.itemsToHide, entry.name) \/ HasName(curSpec.itemsToIgnore, entry.name)

\* C8 as stated: the result of a pass of either entry point holds no entry whose
\* name is in the hide set or the ignore set, and holds every other entry.
C8_NoHiddenEntryInAnyResult ==
    CustomPassReturned =>
        \A i \in 1..Len(args.items) :
            HiddenOrIgnored(args.items[i]) <=> args.items[i] \notin SeqToSet(ResultEntries)

\* C8 amended: the result of folderSortCore holds exactly the children of the
\* folder whose name is in neither set, each once; the result of sortFolderItems
\* holds every entry of its input, each once, whatever the two sets hold.
C8_OnlyFolderSortCoreFilters ==
    CustomPassReturned =>
        /\ SeqToSet(ResultEntries) =
              IF op = "folderSortCore"
              THEN {e \in SeqToSet(childrenOf(args.folder)) : ~HiddenOrIgnored(e)}
              ELSE SeqToSet(args.items)
        /\ Len(ResultEntries) = Cardinality(SeqToSet(ResultEntries))

\* sortFolderItems returned a list that holds an entry named in the hide set and
\* an entry named in the ignore set
C8_Witness ==
    /\ op = "sortFolderItems"
    /\ CustomPassReturned
    /\ \E e \in SeqToSet(ret.items) : HasName(curSpec.itemsToHide, e.name)
    /\ \E e \in SeqToSet(ret.items) : HasName(curSpec.itemsToIgnore, e.name)

-----------------------------------------------------------------------------
(* Specification SpecDerived: determineSortingGroup on files and folders of  *)
(* every short name, against groups whose regexps capture a part of the name *)

DigitsAfterA == Regex(TRUE, <<"a">>, "+", TRUE, <<>>, FALSE)
DigitsBeforeB == Regex(FALSE, <<>>, "+", TRUE, <<"b">>, TRUE)

DerivedGroupPool ==
    {CustomSortGroup("ExactPrefix", [regexPrefix |-> Some(RegExpSpec(DigitsAfterA, Undefined))]),
     CustomSortGroup("ExactPrefix", [regexPrefix |-> Some(RegExpSpec(DigitsAfterA, Some("failing")))]),
     CustomSortGroup("ExactSuffix", [regexSuffix |-> Some(RegExpSpec(DigitsBeforeB, Some("identity")))]),
     CustomSortGroup("ExactSuffix",
                     [regexSuffix |-> Some(RegExpSpec(Regex(FALSE, <<>>, "+", TRUE, <<".", "m", "d">>, TRUE),
                                                      Undefined)),
                      matchFilenameWithExt |-> TRUE]),
     CustomSortGroup("ExactName",
                     [regexPrefix |-> Some(RegExpSpec(Regex(TRUE, <<>>, "*", TRUE, <<"b">>, TRUE),
                                                      Undefined))]),
     CustomSortGroup("ExactName", [exactText |-> Some(<<"a", "1">>)]),
     CustomSortGroup("ExactHeadAndTail", [exactPrefix |-> Some(<<"a">>),
                                          regexSuffix |-> Some(RegExpSpec(DigitsBeforeB, Undefined))]),
     CustomSortGroup("ExactHeadAndTail", [regexPrefix |-> Some(RegExpSpec(DigitsAfterA, Undefined)),
                                          regexSuffix |-> Some(RegExpSpec(DigitsBeforeB, Undefined))]),
     CustomSortGroup("MatchAll", <<>>)}

DerivedSpecs ==
    {CustomSortSpec([groups |-> gs, outsidersGroupIdx |-> o]) :
        gs \in SeqsUpTo(DerivedGroupPool, MaxGroups), o \in {Undefined, Some(0)}}

InitDerived ==
    /\ Init0
    /\ curSortOrder = OS_alphabetical
    /\ curCtx = NoContext
    /\ curSpec \in DerivedSpecs
    /\ \E n \in HeadTailNames :
          args \in {[entry |-> TFile(<<"p", "/">> \o n \o <<".", "m", "d">>, n \o <<".", "m", "d">>, n, 1, 1)],
                    [entry |-> TFolder(<<"p", "/">> \o n, n, <<>>)]}

NextDerived == Classify

SpecDerived == InitDerived /\ [][NextDerived]_vars

\* the name the group is matched against
NameForMatching(group, entry) ==
    IF group.matchFilenameWithExt THEN entry.name ELSE basenameOf(entry)

\* the capture of a regexp on a name as a string, empty when there is none
CaptureOf(theRegex, name) ==
    IF TruthyStr(matchGroupRegex(Val(theRegex), name).group)
    THEN Val(matchGroupRegex(Val(theRegex), name).group) ELSE <<>>

\* the text a group derives from the name of an entry it matches: the capture of
\* its regexp, for head-and-tail the capture of the left side followed by the
\* capture of the right side; empty for a group that matches by a literal
DerivedTextOf(group, name) ==
    CASE group.type = "ExactPrefix" /\ ~TruthyStr(group.exactPrefix) -> CaptureOf(group.regexPrefix, name)
      [] group.type = "ExactSuffix" /\ ~TruthyStr(group.exactSuffix) -> CaptureOf(group.regexSuffix, name)
      [] group.type = "ExactName" /\ ~TruthyStr(group.exactText) -> CaptureOf(group.regexPrefix, name)
      [] group.type = "ExactHeadAndTail" /\ TruthyStr(group.exactPrefix) /\ ~TruthyStr(group.exactSuffix) ->
            CaptureOf(group.regexSuffix, name)
      [] group.type = "ExactHeadAndTail" /\ ~TruthyStr(group.exactPrefix) /\ TruthyStr(group.exactSuffix) ->
            CaptureOf(group.regexPrefix, name)
      [] group.type = "ExactHeadAndTail" /\ ~TruthyStr(group.exactPrefix) /\ ~TruthyStr(group.exactSuffix) ->
            CaptureOf(group.regexPrefix, name) \o CaptureOf(group.regexSuffix, name)
      [] OTHER -> <<>>

\* the text derived by the group that wins the drawn entry, empty when no group wins
WinnerDerivedText ==
    IF MatchingPositions = {} THEN <<>>
    ELSE DerivedTextOf(GroupToTest(curSpec, FirstMatchingGroupIdx),
                       NameForMatching(GroupToTest(curSpec, FirstMatchingGroupIdx), args.entry))

-----------------------------------------------------------------------------
(* Specification SpecDates: determineDatesForFolder on folders of up to      *)
(* MaxItems children, each a file or a subfolder that is empty or holds one  *)
(* file, with timestamps from 0 up                                           *)

Stamps == 0..2

StampedFile(dir, name, mtime, ctime) ==
    TFile(dir \o <<"/">> \o name \o <<".", "m", "d">>, name \o <<".", "m", "d">>, name, ctime, mtime)

\* what a child of the folder can be: a file, an empty subfolder, a subfolder with one file
ChildShapes ==
    {[kind |-> "file", mtime |-> m, ctime |-> c] : m \in Stamps, c \in Stamps}
    \cup {[kind |-> "empty folder", mtime |-> 0, ctime |-> 0]}
    \cup {[kind |-> "folder", mtime |-> m, ctime |-> c] : m \in Stamps, c \in Stamps}

ChildNames == <<"a", "b", "c", "d", "e">>

\* the i-th child of folder q, of the given shape
ChildOf(i, shape) ==
    CASE shape.kind = "file" -> StampedFile(<<"q">>, <<ChildNames[i]>>, shape.mtime, shape.ctime)
      [] shape.kind = "empty folder" -> TFolderOf(<<"q", "/", ChildNames[i]>>, <<ChildNames[i]>>, <<>>)
      [] OTHER -> TFolderOf(<<"q", "/", ChildNames[i]>>, <<ChildNames[i]>>,
                            <<StampedFile(<<"q", "/", ChildNames[i]>>, <<"g">>, shape.mtime, shape.ctime)>>)

InitDates ==
    /\ Init0
    /\ curSpec = CustomSortSpec(<<>>)
    /\ curCtx = NoContext
    /\ curSortOrder = OS_alphabetical
    /\ \E shapes \in {<<>>} \cup SeqsUpTo(ChildShapes, MaxItems), recursive \in BOOLEAN :
          args = [folder |-> TFolderOf(<<"q">>, <<"q">>, [i \in 1..Len(shapes) |-> ChildOf(i, shapes[i])]),
                  recursive |-> recursive]

\* determineDatesForFolder(folder, recursive) is called for the drawn folder
DetermineDates ==
    /\ op = "init"
    /\ op' = "determineDatesForFolder"
    /\ ret' = determineDatesForFolder(args.folder, args.recursive)
    /\ UNCHANGED <<curSpec, curCtx, curSortOrder, args>>

NextDates == DetermineDates

SpecDates == InitDates /\ [][NextDates]_vars

\* the files considered: the child files, and with recursive the files of the subfolders
FilesConsidered ==
    {e \in SeqToSet(childrenOf(args.folder)) : ~isFolder(e)}
    \cup (IF args.recursive
          THEN UNION {SeqToSet(childrenOf(e)) : e \in {d \in SeqToSet(childrenOf(args.folder)) : isFolder(d)}}
          ELSE {})

\* C15: determineDatesForFolder returns the maximum mtime and the minimum ctime
\* over the files considered, and 0 for both when there is no such file.
C15_MaxModifiedMinCreated ==
    op = "determineDatesForFolder" =>
        IF FilesConsidered = {} THEN ret.mtime = 0 /\ ret.ctime = 0
        ELSE /\ \E f \in FilesConsidered : ret.mtime = f.stat.mtime
             /\ \A f \in FilesConsidered : f.stat.mtime <= ret.mtime
             /\ \E f \in FilesConsidered : ret.ctime = f.stat.ctime
             /\ \A f \in FilesConsidered : ret.ctime <= f.stat.ctime

\* the extractor of the ordering returned null for the classified entry
ExtractorFailed(it) == it.metadataFieldValue = Null

\* the classified entry has a metadata value at the primary level
HasPresentValue(it) == it.metadataFieldValue # Undefined /\ it.metadataFieldValue # Null

\* the classified entries i and j of the pass are in one group, ordered by
\* metadata through an extractor at its primary level
ComparedThroughExtractor(i, j) ==
    /\ ret.folderItems[i].groupIdx = ret.folderItems[j].groupIdx
    /\ isByMetadata(OrderOf(SortingOf(GroupAt(curSpec.groups, Val(ret.folderItems[i].groupIdx)))))
    /\ Defined(Val(SortingOf(GroupAt(curSpec.groups, Val(ret.folderItems[i].groupIdx)))).metadataValueExtractor)

\* the result of the primary level's sorter on the classified entries i and j
PrimaryLevelCompare(i, j) ==
    LevelResult(SortingOf(GroupAt(curSpec.groups, Val(ret.folderItems[i].groupIdx))),
                Some(curSortOrder), "forPrimary", ret.folderItems[i], ret.folderItems[j])

\* C17: an entry for which the extractor returned null counts as having no
\* metadata value at that level: the metadata sorter orders it after every entry
\* with a present value and is neutral against another entry without a value.
C17_FailedExtractionIsAbsence ==
    CustomPassReturned =>
        \A i, j \in 1..Len(ret.folderItems) :
            (ComparedThroughExtractor(i, j) /\ ExtractorFailed(ret.folderItems[i])) =>
                /\ HasPresentValue(ret.folderItems[j]) =>
                      (PrimaryLevelCompare(i, j) > 0 /\ PrimaryLevelCompare(j, i) < 0)
                /\ ~HasPresentValue(ret.folderItems[j]) => PrimaryLevelCompare(i, j) = 0

\* a pass that returned, with a Bookmark Order Lookup in the context
PassWithBookmarkLookup == CustomPassReturned /\ Defined(curCtx.bookmarksPluginInstance)

\* the lookup's rank for the path of a classified entry
RankOf(it) == determineBookmarkOrder(Val(curCtx.bookmarksPluginInstance), it.path)

BookmarkBased(sorting) == Defined(sorting) /\ Val(sorting).order \in BookmarkOrders

\* some ordering level of the specification is bookmark-based
AnyLevelBookmarkBased ==
    \/ BookmarkBased(curSpec.defaultSorting) \/ BookmarkBased(curSpec.defaultSecondarySorting)
    \/ \E g \in 1..Len(curSpec.groups) :
          BookmarkBased(curSpec.groups[g].sorting) \/ BookmarkBased(curSpec.groups[g].secondarySorting)

\* the folder has a default ordering, and it or its secondary ordering is bookmark-based
FolderDefaultBookmarkBased ==
    /\ Defined(curSpec.defaultSorting)
    /\ (BookmarkBased(curSpec.defaultSorting) \/ BookmarkBased(curSpec.defaultSecondarySorting))

\* the primary or the secondary ordering of the entry's own group is bookmark-based
OwnGroupBookmarkBased(it) ==
    /\ Defined(GroupAt(curSpec.groups, Val(it.groupIdx)))
    /\ \/ BookmarkBased(SortingOf(GroupAt(curSpec.groups, Val(it.groupIdx))))
       \/ BookmarkBased(SecondarySortingOf(GroupAt(curSpec.groups, Val(it.groupIdx))))

-----------------------------------------------------------------------------
(* The entry with the past-the-end index in a pass *)

\* a pass with the specification was made, whether it returned or not
CustomPassMade ==
    /\ op \in {"folderSortCore", "sortFolderItems", "sortFolderItems again"}
    /\ args.custom

\* the entries the pass classifies: the shown children, or the list handed in
EntriesOfThePass ==
    IF op = "folderSortCore" THEN ShownChildren(args.folder, curSpec) ELSE args.items

\* no group matches the entry and there is no outsiders group
ClassifiedPastTheEnd(entry) ==
    /\ ~Defined(curSpec.outsidersGroupIdx)
    /\ determineSortingGroup(entry, curSpec, curCtx).groupIdx = Some(Len(curSpec.groups))

\* C19: a pass over entries of which one is classified to the past-the-end index
\* returns a result without a fault, for a file and for a folder, with and without
\* a bookmark order lookup
C19_PastTheEndEntryNeverFaults ==
    (/\ CustomPassMade
     /\ \E i \in 1..Len(EntriesOfThePass) : ClassifiedPastTheEnd(EntriesOfThePass[i]))
        => ~ret.threw

\* the same pass without a lookup and without a folder among the past-the-end
\* entries does return: the comparator itself orders the index after every group
C19_ComparatorHandlesPastTheEnd ==
    (/\ CustomPassMade
     /\ ~Defined(curCtx.bookmarksPluginInstance)
     /\ \A i \in 1..Len(EntriesOfThePass) :
            ClassifiedPastTheEnd(EntriesOfThePass[i]) => ~isFolder(EntriesOfThePass[i]))
        => ~ret.threw

\* a past-the-end file alone faults the pass when a lookup is present
C19_FileFaultsWithLookup ==
    /\ CustomPassMade
    /\ Defined(curCtx.bookmarksPluginInstance)
    /\ \E i \in 1..Len(EntriesOfThePass) :
          ClassifiedPastTheEnd(EntriesOfThePass[i]) /\ ~isFolder(EntriesOfThePass[i])
    /\ \A i \in 1..Len(EntriesOfThePass) : ~isFolder(EntriesOfThePass[i])
    /\ ret.threw

\* a past-the-end folder faults the pass when no lookup is present
C19_FolderFaultsWithoutLookup ==
    /\ CustomPassMade
    /\ ~Defined(curCtx.bookmarksPluginInstance)
    /\ \E i \in 1..Len(EntriesOfThePass) :
          ClassifiedPastTheEnd(EntriesOfThePass[i]) /\ isFolder(EntriesOfThePass[i])
    /\ ret.threw

-----------------------------------------------------------------------------
(* Specification SpecHost: the two host-default comparators on one pair of   *)
(* entries.  StandardPlainObsidianComparator is applied to the raw entries,  *)
(* then both are classified and getSorterFnFor(standardObsidian, name) is    *)
(* applied to the classified entries.                                        *)

HostNames == {<<"a">>, <<"A">>, <<"b">>, <<"a", "1">>, <<"a", "2">>}

\* [mtime, ctime] of the files
HostStamps == {<<0, 0>>, <<1, 2>>, <<2, 1>>}

HostEntries ==
    {StampedFile(<<"p">>, n, st[1], st[2]) : n \in HostNames, st \in HostStamps}
        \cup {TFolder(<<"p", "/">> \o n, n, <<>>) : n \in HostNames}

\* one specification without a capturing group and one that derives text from a1, a2
HostSpecs ==
    {CustomSortSpec([groups |-> <<CustomSortGroup("MatchAll", <<>>)>>]),
     CustomSortSpec(
        [groups |-> <<CustomSortGroup("ExactPrefix",
                                      [regexPrefix |-> Some(RegExpSpec(DigitsAfterA, Undefined))]),
                      CustomSortGroup("Outsiders", <<>>)>>,
         outsidersGroupIdx |-> Some(1)])}

InitHost ==
    /\ Init0
    /\ curSpec \in HostSpecs
    /\ curCtx = NoContext
    /\ curSortOrder \in PlainSortFnNames
    /\ \E a \in HostEntries, b \in HostEntries : args = [a |-> a, b |-> b]

\* StandardPlainObsidianComparator(curSortOrder)(a, b)
ComparePlain ==
    /\ op = "init"
    /\ op' = "StandardPlainObsidianComparator"
    /\ ret' = [plain |-> StandardPlainObsidianComparator(curSortOrder, args.a, args.b)]
    /\ UNCHANGED <<curSpec, curCtx, curSortOrder, args>>

\* getSorterFnFor(standardObsidian, curSortOrder)(itA, itB) on the classified pair
CompareStandard ==
    /\ op = "StandardPlainObsidianComparator"
    /\ op' = "getSorterFnFor"
    /\ LET itA == determineSortingGroup(args.a, curSpec, curCtx)
           itB == determineSortingGroup(args.b, curSpec, curCtx)
       IN  ret' = [plain |-> ret.plain, itA |-> itA, itB |-> itB,
                   standard |-> getSorterFnFor("standardObsidian", Some(curSortOrder),
                                               "forPrimary", itA, itB)]
    /\ UNCHANGED <<curSpec, curCtx, curSortOrder, args>>

NextHost == ComparePlain \/ CompareStandard

SpecHost == InitHost /\ [][NextHost]_vars

\* both comparators were applied to the pair
BothCompared == op = "getSorterFnFor"

\* the classification derived no text for either entry
NoDerivedText ==
    /\ ret.itA.sortString = (IF isFolder(args.a) THEN args.a.name ELSE args.a.basename)
    /\ ret.itB.sortString = (IF isFolder(args.b) THEN args.b.name ELSE args.b.basename)
    /\ ret.itA.sortStringWithExt = args.a.name
    /\ ret.itB.sortStringWithExt = args.b.name

\* the host's criterion for two files: negative when a goes first
HostCriterion(name, a, b) ==
    CASE name = OS_alphabetical -> CollatorCompare(a.basename, b.basename)
      [] name = OS_alphabeticalReverse -> CollatorCompare(b.basename, a.basename)
      [] name = OS_byModifiedTime -> IF a.stat.mtime > b.stat.mtime THEN -1
                                     ELSE IF a.stat.mtime < b.stat.mtime THEN 1 ELSE 0
      [] name = OS_byModifiedTimeReverse -> IF a.stat.mtime < b.stat.mtime THEN -1
                                            ELSE IF a.stat.mtime > b.stat.mtime THEN 1 ELSE 0
      [] name = OS_byCreatedTime -> IF a.stat.ctime > b.stat.ctime THEN -1
                                    ELSE IF a.stat.ctime < b.stat.ctime THEN 1 ELSE 0
      [] name = OS_byCreatedTimeReverse -> IF a.stat.ctime < b.stat.ctime THEN -1
                                           ELSE IF a.stat.ctime > b.stat.ctime THEN 1 ELSE 0

\* a folder before a file, two folders by name, two files by the host's criterion
HostOrder(name, a, b) ==
    IF isFolder(a) /\ ~isFolder(b) THEN -1
    ELSE IF isFolder(b) /\ ~isFolder(a) THEN 1
    ELSE IF isFolder(a) /\ isFolder(b) THEN CollatorCompare(a.name, b.name)
    ELSE HostCriterion(name, a, b)

\* C20: for each of the six host order names and each pair of entries classified
\* without derived text, the plain comparator on the raw entries and the
\* standardObsidian comparator on the classified entries return results of the
\* same sign, the sign of: folder before file, two folders by name, two files by
\* the host's criterion (byModifiedTime, byCreatedTime newest first; Reverse oldest first)
C20_PlainAndStandardAgree ==
    (BothCompared /\ NoDerivedText) =>
        /\ ~ret.plain.threw
        /\ Sign(ret.plain.value) = Sign(ret.standard)
        /\ Sign(ret.standard) = Sign(HostOrder(curSortOrder, args.a, args.b))

\* two files under the host's byModifiedTime, the first one newer: both put it first
C20_Witness ==
    /\ BothCompared
    /\ NoDerivedText
    /\ curSortOrder = OS_byModifiedTime
    /\ ~isFolder(args.a) /\ ~isFolder(args.b)
    /\ args.a.stat.mtime > args.b.stat.mtime
    /\ ret.plain.value < 0
    /\ ret.standard < 0

\* with derived text the two comparators can disagree
C20_DerivedTextDisagrees ==
    /\ BothCompared
    /\ ~NoDerivedText
    /\ ~ret.plain.threw
    /\ Sign(ret.plain.value) # Sign(ret.standard)

-----------------------------------------------------------------------------
(* The folder timestamps the advanced date orders compare *)

NonRecursiveAdvancedOrders ==
    {"byModifiedTimeAdvanced", "byModifiedTimeReverseAdvanced",
     "byCreatedTimeAdvanced", "byCreatedTimeReverseAdvanced"}

ModifiedTimeOrders ==
    {"byModifiedTimeAdvanced", "byModifiedTimeReverseAdvanced",
     "byModifiedTimeAdvancedRecursive", "byModifiedTimeReverseAdvancedRecursive"}

\* the four configurable levels of the cascade for an entry, and their level ids
LevelSortings(it) ==
    <<SortingOf(GroupAt(curSpec.groups, Val(it.groupIdx))),
      SecondarySortingOf(GroupAt(curSpec.groups, Val(it.groupIdx))),
      curSpec.defaultSorting,
      curSpec.defaultSecondarySorting>>

LevelIds == <<"forPrimary", "forSecondary", "forDerivedPrimary", "forDerivedSecondary">>

\* the comparator of the pass applies level n to the i-th and j-th classified entry:
\* they are in the same group and every earlier level left them neutral
LevelApplied(i, j, n) ==
    /\ ret.folderItems[i].groupIdx = ret.folderItems[j].groupIdx
    /\ Defined(LevelSortings(ret.folderItems[i])[n])
    /\ \A k \in 1..(n - 1) :
          LevelResult(LevelSortings(ret.folderItems[i])[k], Some(curSortOrder), LevelIds[k],
                      ret.folderItems[i], ret.folderItems[j]) = EQUAL_OR_UNCOMPARABLE

\* the timestamp of the classified folder that the order reads is the aggregate
\* over its direct child files (recursive = FALSE) or over its subtree (TRUE)
ReadsAggregate(it, order, recursive) ==
    IF order \in ModifiedTimeOrders
    THEN it.mtime = determineDatesForFolder(Val(it.folder), recursive).mtime
    ELSE it.ctime = determineDatesForFolder(Val(it.folder), recursive).ctime

\* two different folders among the classified entries of the pass
TwoFolders(i, j) ==
    /\ i # j
    /\ ret.folderItems[i].isFolder
    /\ ret.folderItems[j].isFolder

\* level n of the pair's cascade is applied and its order is in the set
AppliedOrderIn(i, j, n, orders) ==
    /\ TwoFolders(i, j)
    /\ LevelApplied(i, j, n)
    /\ Val(LevelSortings(ret.folderItems[i])[n]).order \in orders

\* C21: in a pass, two folders compared by a non-recursive advanced date order are
\* compared on aggregates over their direct child files, whatever the other levels
\* are; two folders compared by a recursive variant on aggregates over the subtree
C21_AggregateDepthFollowsTheOrder ==
    CustomPassReturned =>
        \A i \in 1..Len(ret.folderItems), j \in 1..Len(ret.folderItems), n \in 1..4 :
            /\ AppliedOrderIn(i, j, n, NonRecursiveAdvancedOrders) =>
                  /\ ReadsAggregate(ret.folderItems[i],
                                    Val(LevelSortings(ret.folderItems[i])[n]).order, FALSE)
                  /\ ReadsAggregate(ret.folderItems[j],
                                    Val(LevelSortings(ret.folderItems[i])[n]).order, FALSE)
            /\ AppliedOrderIn(i, j, n, SortOrderRequiringRecursiveFolderDate) =>
                  /\ ReadsAggregate(ret.folderItems[i],
                                    Val(LevelSortings(ret.folderItems[i])[n]).order, TRUE)
                  /\ ReadsAggregate(ret.folderItems[j],
                                    Val(LevelSortings(ret.folderItems[i])[n]).order, TRUE)

\* the recursive half alone: a recursive variant reads aggregates over the subtree
C21_RecursiveOrderReadsTheSubtree ==
    CustomPassReturned =>
        \A i \in 1..Len(ret.folderItems), j \in 1..Len(ret.folderItems), n \in 1..4 :
            AppliedOrderIn(i, j, n, SortOrderRequiringRecursiveFolderDate) =>
                /\ ReadsAggregate(ret.folderItems[i],
                                  Val(LevelSortings(ret.folderItems[i])[n]).order, TRUE)
                /\ ReadsAggregate(ret.folderItems[j],
                                  Val(LevelSortings(ret.folderItems[i])[n]).order, TRUE)

\* no level of the entry's cascade is a recursive variant
NoRecursiveLevel(it) ==
    \A n \in 1..4 :
        Defined(LevelSortings(it)[n]) =>
            Val(LevelSortings(it)[n]).order \notin SortOrderRequiringRecursiveFolderDate

\* the non-recursive half where no level is recursive: the direct children are read
C21_ShallowWithoutRecursiveLevel ==
    CustomPassReturned =>
        \A i \in 1..Len(ret.folderItems), j \in 1..Len(ret.folderItems), n \in 1..4 :
            (AppliedOrderIn(i, j, n, NonRecursiveAdvancedOrders)
                /\ NoRecursiveLevel(ret.folderItems[i])) =>
                /\ ReadsAggregate(ret.folderItems[i],
                                  Val(LevelSortings(ret.folderItems[i])[n]).order, FALSE)
                /\ ReadsAggregate(ret.folderItems[j],
                                  Val(LevelSortings(ret.folderItems[i])[n]).order, FALSE)

\* folders a and b compared by byModifiedTimeAdvanced while the secondary level is a
\* recursive variant: folder a carries the modified time of its subtree
C21_ShallowOrderReadsTheSubtree ==
    /\ CustomPassReturned
    /\ \E i \in 1..Len(ret.folderItems), j \in 1..Len(ret.folderItems) :
          /\ AppliedOrderIn(i, j, 1, {"byModifiedTimeAdvanced"})
          /\ ret.folderItems[i].path = p_a
          /\ ret.folderItems[i].mtime = determineDatesForFolder(Vault[p_a], TRUE).mtime
          /\ ret.folderItems[i].mtime # determineDatesForFolder(Vault[p_a], FALSE).mtime

-----------------------------------------------------------------------------
(* Specification SpecPasses: any sequence of passes with one specification   *)
(* over the folders q/a, q/b and p/a.  The specification object is shared   *)
(* by the passes: each pass starts with the groupsShadow the last one left.  *)

PassFolders == {Vault[q_a], Vault[q_b], Vault[p_a]}

\* groups whose texts hold the parent-folder-name macro, and a list without it
PassGroupLists ==
    {<<CustomSortGroup("ExactName", [exactText |-> Some(<<MACRO_TOKEN>>)]),
       CustomSortGroup("Outsiders", <<>>)>>,
     <<CustomSortGroup("ExactSuffix", [exactSuffix |-> Some(<<MACRO_TOKEN>>), filesOnly |-> TRUE]),
       CustomSortGroup("ExactPrefix", [exactPrefix |-> Some(<<MACRO_TOKEN, ".">>),
                                       matchFilenameWithExt |-> TRUE]),
       CustomSortGroup("Outsiders", <<>>)>>,
     <<CustomSortGroup("ExactPrefix", [exactPrefix |-> Some(<<"a">>)]),
       CustomSortGroup("Outsiders", <<>>)>>}

PassSpecs ==
    {CustomSortSpec([groups |-> groups, outsidersGroupIdx |-> Some(Len(groups) - 1)]) :
        groups \in PassGroupLists}

NoFolder == [name |-> <<"-">>]

InitPasses ==
    /\ Init0
    /\ curSpec \in PassSpecs
    /\ curCtx = NoContext
    /\ curSortOrder = OS_alphabetical
    /\ args = [folder |-> NoFolder, previous |-> NoFolder, items |-> <<>>]

\* getSortedFolderItems / folderSortCore on one of the folders
PassOverFolder ==
    \E folder \in PassFolders :
        /\ op' = "folderSortCore"
        /\ ret' = folderSortCore(folder, curSortOrder, curSpec, curCtx)
        /\ curSpec' = ret'.sortingSpec
        /\ args' = [folder |-> folder, previous |-> args.folder,
                    items |-> ShownChildren(folder, curSpec)]
        /\ UNCHANGED <<curCtx, curSortOrder>>

\* sortFolderItems on a list of children of one of the folders
PassOverItems ==
    \E folder \in PassFolders :
        \E items \in ItemLists(folder) :
            /\ op' = "sortFolderItems"
            /\ ret' = sortFolderItems(folder, items, Some(curSpec), curCtx, curSortOrder)
            /\ curSpec' = Val(ret'.sortingSpec)
            /\ args' = [folder |-> folder, previous |-> args.folder, items |-> items]
            /\ UNCHANGED <<curCtx, curSortOrder>>

NextPasses == PassOverFolder \/ PassOverItems

SpecPasses == InitPasses /\ [][NextPasses]_vars

PassMade == op \in {"folderSortCore", "sortFolderItems"}

\* group i as a pass over the folder must see it: the group's fields, with the
\* macro in its texts replaced by the folder's name
ShadowFor(group, folderName) ==
    [group EXCEPT !.exactText = ExpandOptional(@, folderName),
                  !.exactPrefix = ExpandOptional(@, folderName),
                  !.exactSuffix = ExpandOptional(@, folderName)]

\* the specification as a pass over the folder sees it when no pass came before
FirstPassSpec(folder) ==
    [curSpec EXCEPT !.groupsShadow =
        Some([i \in 1..Len(curSpec.groups) |-> ShadowFor(curSpec.groups[i], folder.name)])]

\* C22: every pass with a specification leaves groupsShadow a copy of groups of the
\* same length, index by index, with the macros expanded for the folder of this
\* pass, and classifies every entry with it: after any sequence of passes the
\* classification is the one a first pass over the folder makes, whatever folder
\* was sorted before
C22_ShadowRebuiltForEveryPass ==
    PassMade =>
        /\ ~ret.threw
        /\ Defined(curSpec.groupsShadow)
        /\ Len(Val(curSpec.groupsShadow)) = Len(curSpec.groups)
        /\ \A i \in 1..Len(curSpec.groups) :
              Val(curSpec.groupsShadow)[i] = ShadowFor(curSpec.groups[i], args.folder.name)
        /\ Len(ret.folderItems) = Len(args.items)
        /\ \A k \in 1..Len(args.items) :
              ret.folderItems[k] = determineSortingGroup(args.items[k], FirstPassSpec(args.folder), curCtx)

\* a pass over q/a right after a pass over q/b: the shadow names a, the file a.md
\* is in the macro's group and b.md, which the pass before put there, is not
C22_Witness ==
    /\ PassMade
    /\ args.previous = Vault[q_b]
    /\ args.folder = Vault[q_a]
    /\ Val(curSpec.groupsShadow)[1].exactText = Some(<<"a">>)
    /\ \E k \in 1..Len(ret.folderItems) :
          ret.folderItems[k].path = q_a_a_md /\ ret.folderItems[k].groupIdx = Some(0)
    /\ \E k \in 1..Len(ret.folderItems) :
          ret.folderItems[k].path = q_a_b_md /\ ret.folderItems[k].groupIdx = Some(1)

-----------------------------------------------------------------------------
(* The host-default comparators under an unrecognized host order name *)

\* sortFolderItems was called without a specification
PlainPassMade ==
    /\ op \in {"sortFolderItems", "sortFolderItems again"}
    /\ ~args.custom

\* getSorterFnFor(standardObsidian, name) orders every two classified files of a
\* returned pass alphabetically by sort string
StandardFallsBackToAlphabetical ==
    (CustomPassReturned /\ curSortOrder = UnrecognizedOrder) =>
        \A i \in 1..Len(ret.folderItems), j \in 1..Len(ret.folderItems) :
            (~ret.folderItems[i].isFolder /\ ~ret.folderItems[j].isFolder) =>
                getSorterFnFor("standardObsidian", Some(curSortOrder), "forPrimary",
                               ret.folderItems[i], ret.folderItems[j])
                    = CollatorCompare(ret.folderItems[i].sortString, ret.folderItems[j].sortString)

\* StandardPlainObsidianComparator(name) returns, for every two entries of the list,
\* a number, and for two files the alphabetical order of their basenames; the pass
\* that sorts with it returns
PlainFallsBackToAlphabetical ==
    (PlainPassMade /\ curSortOrder = UnrecognizedOrder) =>
        /\ ~ret.threw
        /\ \A i \in 1..Len(args.first), j \in 1..Len(args.first) :
              /\ ~StandardPlainObsidianComparator(curSortOrder, args.first[i], args.first[j]).threw
              /\ (~isFolder(args.first[i]) /\ ~isFolder(args.first[j])) =>
                    StandardPlainObsidianComparator(curSortOrder, args.first[i], args.first[j]).value
                        = CollatorCompare(args.first[i].basename, args.first[j].basename)

\* C23: under a host order name that is none of the six recognized ones both
\* host-default comparators fall back to alphabetical order and return a number for
\* every pair without a fault: getSorterFnFor(standardObsidian, name) by sort
\* string, StandardPlainObsidianComparator(name) by basename
C23_UnrecognizedNameFallsBackToAlphabetical ==
    StandardFallsBackToAlphabetical /\ PlainFallsBackToAlphabetical

\* the half about getSorterFnFor alone
C23_StandardComparatorFallsBack == StandardFallsBackToAlphabetical

\* a pass without a specification over a list with two files faults under the
\* unrecognized name
C23_PlainPassFaults ==
    /\ PlainPassMade
    /\ curSortOrder = UnrecognizedOrder
    /\ Len(args.first) = 2
    /\ ~isFolder(args.first[1]) /\ ~isFolder(args.first[2])
    /\ ret.threw

\* with a folder in every compared pair the plain comparator never reaches the
\* file comparator and the pass returns
C23_PlainPassWithFoldersReturns ==
    (/\ PlainPassMade
     /\ curSortOrder = UnrecognizedOrder
     /\ Cardinality({i \in 1..Len(args.first) : ~isFolder(args.first[i])}) <= 1)
        => ~ret.threw

====
